---------------------------- MODULE Spec2Model ----------------------------
(***************************************************************************)
(* Dual-core audio players of pico-audio.                                  *)
(*                                                                         *)
(* Three player programs share one design: Core1 (the producer) reads a    *)
(* file and pushes mono samples into a ring buffer, Core0 (the consumer)   *)
(* pops fixed-size chunks from it and also runs the operator commands.     *)
(*                                                                         *)
(*   variant = "W"  platformio-sdio-wavplayer/src/main.cpp  (WAV, PCM)     *)
(*   variant = "C"  mp3-player-native-c/src/main.c          (MP3, DMA IRQ) *)
(*   variant = "N"  native-mp3-player/src/main.cpp          (MP3, queue)   *)
(*                                                                         *)
(* A fourth program is the audio-library object AudioPlaySdWav, whose      *)
(* update() reads the file, parses the WAV header and fills audio blocks:  *)
(*                                                                         *)
(*   variant = "A"  src/play_sd_wav.cpp                     (WAV, stereo)  *)
(*                                                                         *)
(* A fifth is the output object of the audio library, AudioOutputI2S,      *)
(* whose update() writes the two input blocks to the I2S:                  *)
(*                                                                         *)
(*   variant = "O"  lib/pico-audio/AudioOutputI2S.h                        *)
(*                                                                         *)
(* The stereo-to-mono downmix of the three players is a pure function of   *)
(* the decoded samples; it is run on its own on every short buffer:        *)
(*                                                                         *)
(*   variant = "D"  mp3_decoder_convert_to_mono (C), the in-place loop of  *)
(*                  fillAudioBufferFromMP3 (N), core1_fillBuffer (W)       *)
(*                                                                         *)
(* The STATE_PLAY case of AudioPlaySdWav::update() is a function of the    *)
(* members at the head of a pass of its loop; it is run on its own, pass   *)
(* by pass, on every short buffer:                                         *)
(*                                                                         *)
(*   variant = "P"  src/play_sd_wav.cpp, update(): case STATE_PLAY         *)
(*                                                                         *)
(* A behaviour is the run of ONE of the programs: Init chooses the variant *)
(* and never changes it.  One player of each program is modelled (the      *)
(* players of a program share no field).  The fields the three programs    *)
(* have in common are one variable each (playing, stopRequested,           *)
(* available, readPos, writePos, underruns, ...).                          *)
(*                                                                         *)
(* A mutex-protected section of the source is one atomic step, enabled     *)
(* only while the mutex is free.  The mutex itself is a variable because   *)
(* in the C program the DMA interrupt can preempt Core0 inside             *)
(* load_mp3_file's critical section.                                       *)
(***************************************************************************)
EXTENDS Integers, Sequences, FiniteSets, TLC

VARIABLES
    variant,        \* which program runs: "W", "C", "N", "A", "O", "D", "P"
    pc0,            \* Core0: position in loop()/main() and the command it runs
    ret0,           \* Core0: the caller stopPlayer returns to
    pc1,            \* Core1: position in the service loop
    playing,        \* player.playing
    stopRequested,  \* player.stopRequested / stop_requested
    fileOpen,       \* the file handle is open (W, N: `file`; C: file_open)
    eof,            \* player.eof (C, N)
    available,      \* ring buffer occupancy (bufferAvailable / available)
    readPos,        \* ring buffer read index
    writePos,       \* ring buffer write index
    underruns,      \* underrunCount / underruns
    dataSize,       \* W: length of the data chunk in bytes
    dataPosition,   \* W: bytes of the data chunk consumed
    numChannels,    \* W: channels of the WAV file
    mp3Buffer,      \* C, N: the memory of the staging buffer (mp3_buffer)
    mp3Fill,        \* C, N: its fill level (mp3_fill / mp3BufferFill)
    fileRest,       \* C, N: the bytes of the open file not yet read
    l_writePos,     \* W core1_fillBuffer: local writePos
    l_bytesToRead,  \* W core1_fillBuffer: local bytesToRead
    l_frame_bytes,  \* N fillAudioBufferFromMP3: info.frame_bytes of the frame
                    \*   pushed whose bytes are not yet removed, else 0
    mutex,          \* owner of player.mutex: "free", "main", "irq"
    irq,            \* C: the DMA interrupt handler: "idle", "running", "spin"
    dma,            \* C: the DMA channels are running (interrupts arrive)
    stream,         \* history: number of the stream: play requests that reset the
                    \*   player (W, N), files load_mp3_file opened (C)
    l_stream,       \* history: the stream the producer's pending data is of
    stopStream,     \* history: the stream stopRequested was last set for
    delivered,      \* history: real samples the consumer delivered, this stream
    out,            \* history: the last chunk emitted, <<real, silence>>
    resyncN,        \* history (C, N): staging fill when a resync run at the end of
                    \*   the data began, 0 outside such a run
    attempts,       \* history (C, N): failed decode attempts of that run
    failedStream,   \* history: the stream whose open failed last, 0 if none
    readFailed,     \* history (C): f_read has returned an error in this stream
    held,           \* history: the file and decoder operations the last step of
                    \*   the producer's fill path made with the mutex held
    state,          \* A: AudioPlaySdWav::state, STATE_STOP .. STATE_PLAY
    buffer,         \* A: the bytes of the last read (buffer[0 .. buffer_length-1])
    buffer_offset,  \* A: bytes of buffer consumed
    header,         \* A: the bytes of the words header[0 .. 7]
    header_offset,  \* A: index of the next header byte
    data_length,    \* A: bytes of the data chunk not yet played
    total_length,   \* A: length of the data chunk
    bytes2millis,   \* A: byte rate / 1000
    played,         \* history (A): the bytes of the file play() opened last
    updates,        \* history (A): calls of update() since play() that ran the
                    \*   state machine
    inputQueueArray,\* O: the blocks waiting at the two inputs of AudioOutputI2S
    sink,           \* O, C: the words of the last chunk handed to the I2S output
                    \*   whose values are known (O: tmp; C: a silent DMA buffer)
    pcm,            \* D: the interleaved stereo samples (pcm / stereo_buffer)
    mono,           \* D: the mono samples a downmix produced, <<>> before it
    audio_buffer,   \* the ring buffer's slots 0 .. capacity-1: k > 0 where the
                    \*   slot holds the k-th sample stored for the stream now
                    \*   played, 0 where it holds anything else (the zero of the
                    \*   initialisation, a sample of an earlier stream)
    stored,         \* history: samples stored into the ring for this stream
    block_offset,   \* P: samples in the audio blocks of the running update()
    passes,         \* history (P): passes of the loop of update() made
    atEnd,          \* P: the loop has been left (goto end)
    frames_decoded, \* C, N: frames decoded since the last reset of the player
    samples_decoded,\* C, N: mono samples decoded since the last reset
    player_channels \* C, N: the advertised format (sample_rate, channels and
                    \*   bitrate are written together): the channel count

ctl      == <<pc0, ret0, pc1>>
flags    == <<playing, stopRequested, fileOpen, eof>>
ring     == <<available, readPos, writePos>>
wav      == <<dataSize, dataPosition, numChannels>>
mp3      == <<mp3Buffer, mp3Fill, fileRest>>
locals   == <<l_writePos, l_bytesToRead, l_stream, l_frame_bytes>>
intr     == <<mutex, irq, dma>>
hist     == <<stream, stopStream, delivered, out>>
sdwav    == <<state, buffer, buffer_offset, header, header_offset, data_length,
               total_length, bytes2millis, played, updates>>
obs      == <<resyncN, attempts, failedStream, readFailed, held>>
i2s      == <<inputQueueArray, sink>>
mix      == <<pcm, mono>>
play     == <<block_offset, passes, atEnd>>
slots    == <<audio_buffer, stored>>
fmt      == <<frames_decoded, samples_decoded, player_channels>>
vars     == <<variant, ctl, flags, ring, underruns, wav, mp3, locals, intr, hist, obs,
               sdwav, i2s, mix, fmt, slots, play>>

---------------------------------------------------------------------------
(* Bounds of the model.  The buffer sizes are the source's, scaled down.   *)

\* BUFFER_SIZE of the WAV player (4096 samples in the source)
BUFFER_SIZE == 8
\* samples per consumer chunk of the WAV and the multi-player MP3 player (128)
CHUNK == 2
\* samples core1_fillBuffer reads at most per call (2048)
FILL_SAMPLES == 4
\* play requests per run
MaxPlays == 2
\* underruns counted per stream
MaxUnderruns == 2
\* samples of the longest WAV data chunk
MaxWavSamples == 12
\* AUDIO_BUFFER_SIZE of the two MP3 players (32768 samples in the source)
AUDIO_BUFFER_SIZE == 8
\* DMA_BUFFER_SIZE of audio_i2s.c, the chunk of the C player (512)
DMA_BUFFER_SIZE == 3
\* MP3_BUFFER_SIZE / MP3_READ_BUFFER, the staging buffer in bytes (8192)
MP3_BUFFER_SIZE == 6
\* MP3_READ_CHUNK of the C player in bytes (2048)
MP3_READ_CHUNK == 2
\* SD_READ_CHUNK of the multi-player MP3 player in bytes (4096)
SD_READ_CHUNK == 3
\* bytes of one MP3 frame of the files on the card
FRAME_BYTES == 2
\* value of `samples` the decoder returns for one frame
FRAME_SAMPLES == 2
\* the staging level under which the multi-player MP3 player ends a stream (128)
MIN_FRAME_BYTES == 2
\* frames of the longest MP3 file
MaxFrames == 4
\* bytes AudioPlaySdWav::update reads from the file at once (512)
WAV_READ_BYTES == 48
\* AUDIO_BLOCK_SAMPLES, the samples of one audio block (128)
AUDIO_BLOCK_SAMPLES == 2
\* bytes of the data chunk of the WAV files AudioPlaySdWav plays
WavDataBytes == 8
\* stereo pairs of the buffers the downmix is run on
MaxStereo == 2
\* calls of update() counted per play()
MaxUpdates == 3
\* bytes of the buffers and of the data the STATE_PLAY case is run on
MaxPlayBytes == 5
\* passes of the loop of update() counted
MaxPasses == 3

\* uint32_t subtraction a - b.  A wrapped difference (2^32 + a - b) is larger
\* than every size of the model; TLC's integers end at 2^31 - 1, which stands for it.
USub(a, b) == IF a >= b THEN a - b ELSE 2147483647

Min(a, b) == IF a < b THEN a ELSE b

\* The high-watermark of the WAV player: BUFFER_SIZE * 3 / 4.
WavWatermark == (BUFFER_SIZE * 3) \div 4

\* A WAV file on the card as core1_openFile sees it: whether SD.open
\* succeeds, whether the 36 header bytes can be read, the header fields the
\* code looks at, whether a data chunk follows and its size.
WavFile(open, headerRead, riff, wave, audioFormat, bitsPerSample, channels, data, size) ==
    [open |-> open, headerRead |-> headerRead, riff |-> riff, wave |-> wave,
     audioFormat |-> audioFormat, bitsPerSample |-> bitsPerSample,
     channels |-> channels, data |-> data, size |-> size]

\* The WAV files on the card.
WavFiles ==
    { WavFile(FALSE, TRUE, "RIFF", "WAVE", 1, 16, 1, TRUE, 0),
      WavFile(TRUE, FALSE, "RIFF", "WAVE", 1, 16, 1, TRUE, 0),
      WavFile(TRUE, TRUE, "RIFX", "WAVE", 1, 16, 1, TRUE, 0),
      WavFile(TRUE, TRUE, "RIFF", "AVI ", 1, 16, 1, TRUE, 0),
      WavFile(TRUE, TRUE, "RIFF", "WAVE", 3, 16, 1, TRUE, 0),
      WavFile(TRUE, TRUE, "RIFF", "WAVE", 1, 8, 1, TRUE, 0),
      WavFile(TRUE, TRUE, "RIFF", "WAVE", 1, 16, 1, FALSE, 0),
      WavFile(TRUE, TRUE, "RIFF", "WAVE", 1, 16, 3, TRUE, 3) }
    \cup { WavFile(TRUE, TRUE, "RIFF", "WAVE", 1, 16, c, TRUE, s)
             : c \in {1, 2}, s \in {0, 3, 2 * MaxWavSamples} }

\* A watermark at the capacity: the producer pushes whenever a slot is free.
Mp3Watermark_full == AUDIO_BUFFER_SIZE

\* The high-watermark of the MP3 players: AUDIO_BUFFER_SIZE * 3 / 4.
Mp3Watermark == (AUDIO_BUFFER_SIZE * 3) \div 4

\* Bytes of an MP3 file: "M" and "S" are the first byte of a valid mono and
\* stereo frame, "b" a further byte of a frame, "g" a byte that starts no
\* frame, "z" the zero the staging memory is initialised with.
Frame(h) == [i \in 1..FRAME_BYTES |-> IF i = 1 THEN h ELSE "b"]

RECURSIVE Frames(_, _)
Frames(h, n) == IF n = 0 THEN <<>> ELSE Frame(h) \o Frames(h, n - 1)

\* The MP3 files on the card.
Mp3Files ==
    { <<>>,
      <<"g", "g">>,
      Frames("M", MaxFrames),
      Frames("S", MaxFrames),
      <<"g">> \o Frame("M") \o <<"g">>,
      Frame("S") \o Frames("M", MaxFrames),
      Frame("M") \o SubSeq(Frame("M"), 1, FRAME_BYTES - 1) }

\* The ring buffer capacity and the consumer's chunk size of the program run.
Capacity == IF variant = "W" THEN BUFFER_SIZE ELSE AUDIO_BUFFER_SIZE

ChunkSize == IF variant = "C" THEN DMA_BUFFER_SIZE ELSE CHUNK

---------------------------------------------------------------------------
(* The staging buffer and the decoder of the MP3 players.                  *)

\* A memmove that moves nothing.
MemMove_none(buf, dst, src, n) == buf

\* A memmove that starts one byte before its source (src > 0).
MemMove_early(buf, dst, src, n) ==
    [i \in 1..MP3_BUFFER_SIZE |->
        IF i > dst /\ i <= dst + n THEN buf[src + (i - dst) - 1] ELSE buf[i]]

\* memmove(buf + dst, buf + src, n) on the staging memory (offsets from 0).
MemMove(buf, dst, src, n) ==
    [i \in 1..MP3_BUFFER_SIZE |->
        IF i > dst /\ i <= dst + n THEN buf[src + (i - dst)] ELSE buf[i]]

\* A read of the bytes `bytes` into buf + off.
StoreBytes(buf, off, bytes) ==
    [i \in 1..MP3_BUFFER_SIZE |->
        IF i > off /\ i <= off + Len(bytes) THEN bytes[i - off] ELSE buf[i]]

\* The decode primitive on the first `size` bytes of buf: a frame is decoded
\* when a whole valid frame starts at offset 0, else no frame is found.
Decode(buf, size) ==
    IF /\ size >= FRAME_BYTES
       /\ buf[1] \in {"M", "S"}
       /\ \A i \in 2..FRAME_BYTES : buf[i] = "b"
      THEN [samples |-> FRAME_SAMPLES,
            channels |-> IF buf[1] = "M" THEN 1 ELSE 2,
            frame_bytes |-> FRAME_BYTES]
      ELSE [samples |-> 0, channels |-> 0, frame_bytes |-> 0]

\* Mono samples of a decoded frame: "Convert stereo to mono if needed".
MonoSamples(info) ==
    IF info.channels = 2 THEN info.samples \div 2 ELSE info.samples

\* The format stored without the test of the frame count.
StoreFormat_everyFrame(n, old, info) == info.channels

\* "Store format info on first frame": the advertised format after the
\* n-th decoded frame, whose frame info is `info`.
StoreFormat(n, old, info) == IF n = 1 THEN info.channels ELSE old

\* The ring after n samples are stored from slot pos on: the samples of
\* the stream now played are numbered on from stored + 1.
StoreSamples(buf, pos, n, current) ==
    [i \in DOMAIN buf |->
        IF (i - pos) % Capacity < n
          THEN IF current THEN stored + 1 + ((i - pos) % Capacity) ELSE 0
          ELSE buf[i]]

\* Samples the push loop stores: it runs while i < n and available < capacity.
Pushed(n) == Min(n, AUDIO_BUFFER_SIZE - available)

\* No byte of the first `size` bytes of buf starts a frame.
NoHeader(buf, size) == \A i \in 1..size : buf[i] \notin {"M", "S"}

\* The observers of a resync run, after a producer step that leaves `fill`
\* bytes in buf: a run begins when the reader is at the end of the data and
\* the staging bytes hold no frame header; inside a run a failed decode
\* attempt is counted.
Resync(buf, fill, endOfData, failed) ==
    IF resyncN > 0
      THEN <<resyncN, IF failed THEN attempts + 1 ELSE attempts>>
      ELSE IF endOfData /\ fill > 0 /\ NoHeader(buf, fill)
             THEN <<fill, 0>>
             ELSE <<0, 0>>

---------------------------------------------------------------------------
(* The order of the mutex, file and decoder operations of the producer.    *)

\* The file and decoder operations of a sequence of operations that lie
\* between a "lock" and the "unlock" after it.
RECURSIVE HeldOps(_, _)
HeldOps(ops, locked) ==
    IF ops = <<>> THEN {}
    ELSE IF Head(ops) = "lock" THEN HeldOps(Tail(ops), TRUE)
    ELSE IF Head(ops) = "unlock" THEN HeldOps(Tail(ops), FALSE)
    ELSE (IF locked THEN {Head(ops)} \cap {"open", "read", "close", "decode"} ELSE {})
            \cup HeldOps(Tail(ops), locked)

\* A sequence of operations updates the indices and the occupancy ("book")
\* outside a "lock" ... "unlock" pair.
RECURSIVE BookUnlocked(_, _)
BookUnlocked(ops, locked) ==
    IF ops = <<>> THEN FALSE
    ELSE IF Head(ops) = "lock" THEN BookUnlocked(Tail(ops), TRUE)
    ELSE IF Head(ops) = "unlock" THEN BookUnlocked(Tail(ops), FALSE)
    ELSE (Head(ops) = "book" /\ ~locked) \/ BookUnlocked(Tail(ops), locked)

\* core1_fillBuffer(): the sample of the occupancy; the end of the file.
W_sample_ops == <<"lock", "sample", "unlock">>

W_finish_ops == <<"lock", "sample", "unlock", "close", "lock", "set", "unlock">>

\* A commit that does not take the mutex.
W_commit_ops_unlocked == <<"read", "book">>

\* core1_fillBuffer(): the file reads, then the update of the indices.
W_commit_ops == <<"read", "lock", "book", "unlock">>

\* read_mp3_data() and decode_mp3_frame() of the C player.
C_read_ops == <<"read">>

C_decodeFrame_ops == <<"decode", "lock", "book", "unlock", "memmove">>

C_decodeSkip_ops == <<"decode", "memmove">>

\* refillMP3Buffer() and fillAudioBufferFromMP3() of the multi-player player.
N_refill_ops == <<"memmove", "read">>

\* fillAudioBufferFromMP3() with the decode inside the critical section.
N_decodeFrame_ops_locked == <<"lock", "decode", "book", "unlock", "memmove">>

N_decodeFrame_ops == <<"decode", "lock", "book", "unlock", "memmove">>

N_decodeSkip_ops == <<"decode", "memmove", "close", "lock", "set", "unlock">>

---------------------------------------------------------------------------
(* The WAV files and the header memory of AudioPlaySdWav.                  *)

STATE_STOP == 0
STATE_PARSE1 == 1
STATE_PARSE2 == 2
STATE_PARSE3 == 3
STATE_PARSE4 == 4
STATE_PARSE5 == 5
STATE_PLAY == 6

\* Little-endian bytes of a 16-bit and of a 32-bit number.
U16(n) == <<n % 256, (n \div 256) % 256>>

U32(n) == <<n % 256, (n \div 256) % 256, (n \div 65536) % 256, (n \div 16777216) % 256>>

\* The number a sequence of little-endian bytes stands for.
RECURSIVE LE(_)
LE(b) == IF Len(b) = 0 THEN 0 ELSE b[1] + 256 * LE(Tail(b))

\* The chunk tags "RIFF", "WAVE", "fmt ", "data", "LIST" as bytes; a header
\* word equals 0x46464952 exactly when its bytes are those of "RIFF".
RIFF == <<82, 73, 70, 70>>

WAVE == <<87, 65, 86, 69>>

FMT == <<102, 109, 116, 32>>

DATA == <<100, 97, 116, 97>>

LIST == <<76, 73, 83, 84>>

\* The body of a 16-byte format chunk: format, channels, sample rate, byte
\* rate, block align, bits per sample.
FmtBody(format, channels, bits) ==
    U16(format) \o U16(channels) \o U32(44100)
        \o U32(44100 * channels * (bits \div 8)) \o U16(channels * (bits \div 8))
        \o U16(bits)

\* A data chunk of n bytes.
DataChunk(n) == DATA \o U32(n) \o [i \in 1..n |-> 7]

\* A canonical WAV file: RIFF header, format chunk, data chunk.
WavBytes(format, channels, bits, n) ==
    RIFF \o U32(36 + n) \o WAVE \o FMT \o U32(16)
        \o FmtBody(format, channels, bits) \o DataChunk(n)

\* The valid 16-bit stereo PCM file.
ValidWav == WavBytes(1, 2, 16, WavDataBytes)

\* The files on the card that play() can open.
AudioFiles ==
    { <<>>,
      SubSeq(ValidWav, 1, 12),
      SubSeq(ValidWav, 1, 36),
      ValidWav,
      WavBytes(1, 1, 16, WavDataBytes),
      WavBytes(3, 2, 16, WavDataBytes),
      WavBytes(1, 2, 8, WavDataBytes),
      <<82, 73, 70, 88>> \o SubSeq(ValidWav, 5, Len(ValidWav)),
      RIFF \o U32(48 + WavDataBytes) \o WAVE \o LIST \o U32(4) \o <<1, 2, 3, 4>>
          \o FMT \o U32(16) \o FmtBody(1, 2, 16) \o DataChunk(WavDataBytes) }

\* The buffers the STATE_PLAY case is run on: data bytes, 0 to MaxPlayBytes.
PlayBytes == UNION { [1..n -> {7}] : n \in 0..MaxPlayBytes }

\* The member `header` is not initialised by the constructor or by begin():
\* a static object starts with zeros, any other object with what the memory
\* held, for example the format words of a valid file.
ZeroHeader == [i \in 1..32 |-> 0]

HeaderMemory ==
    { ZeroHeader,
      [i \in 1..32 |-> IF i <= 16 THEN 0 ELSE FmtBody(1, 2, 16)[i - 16]] }

\* AudioOutputI2S: receiveReadOnly() returns NULL when no block waits at an
\* input, else a block of AUDIO_BLOCK_SAMPLES samples (int16_t data[]).
NULL == <<>>

Samples == {-32768, -1, 0, 1, 32767}

Blocks == {NULL} \cup [1..AUDIO_BLOCK_SAMPLES -> Samples]

\* AudioOutputI2S::update(): sampleL / sampleR for sample i of block b.
I2SSample(b, i) == IF b = NULL \/ b[i] = 0 THEN 1 ELSE b[i]

\* AudioOutputI2S::update(): tmp[], the interleaved 32-bit words it writes.
I2STmp(l, r) ==
    [k \in 1..(2 * AUDIO_BLOCK_SAMPLES) |->
        IF k % 2 = 1 THEN I2SSample(l, (k + 1) \div 2) * 65536
                     ELSE I2SSample(r, k \div 2) * 65536]

\* memset(buffer, 0, n * sizeof(int16_t)): a chunk of n silent samples.
Silence(n) == [i \in 1..n |-> 0]

\* The decoded buffers the downmix is run on: up to MaxStereo stereo pairs of
\* int16_t samples, also with a last sample that has no partner.
StereoBuffers == UNION { [1..n -> Samples] : n \in 1..(2 * MaxStereo) }

\* The conversion to int16_t of an int (assignment to int16_t, (int16_t) cast).
I16(x) == ((x + 32768) % 65536) - 32768

\* a / b of C on int operands, b > 0, as a floored quotient.
FloorDiv(a, b) == a \div b

\* a / b of C on int operands, b > 0: the quotient truncated toward zero.
CDiv(a, b) == IF a >= 0 THEN a \div b ELSE -((-a) \div b)

\* mp3_decoder_convert_to_mono(stereo_buffer, stereo_samples, mono_out):
\* the contents of mono_out[0 .. mono_samples-1].
mp3_decoder_convert_to_mono(stereo_buffer, stereo_samples) ==
    LET mono_samples == stereo_samples \div 2
    IN  [i \in 1..mono_samples |->
            LET left == stereo_buffer[2 * i - 1]
                right == stereo_buffer[2 * i]
            IN  I16(CDiv(left + right, 2))]

\* fillAudioBufferFromMP3(): `pcm[i] = (pcm[i*2] + pcm[i*2+1]) / 2` for
\* i (counted from 1 here) up to monoSamples, in place.
RECURSIVE InPlaceMono(_, _, _)
InPlaceMono(buf, i, monoSamples) ==
    IF i > monoSamples
      THEN buf
      ELSE InPlaceMono([buf EXCEPT ![i] = I16(CDiv(buf[2 * i - 1] + buf[2 * i], 2))],
                       i + 1, monoSamples)

\* core1_fillBuffer(), "Stereo - mix to mono": the samples stored in the ring
\* for samplesToRead 16-bit values of the file.
MixToMono(data, samplesToRead) ==
    [i \in 1..(samplesToRead \div 2) |->
        LET left == data[2 * i - 1]
            right == data[2 * i]
        IN  I16(CDiv(left + right, 2))]

\* The 32-bit word header[k] as its four bytes.
Word(h, k) == SubSeq(h, 4 * k + 1, 4 * k + 4)

---------------------------------------------------------------------------
(* Initial state: after setup() / main() initialisation.                   *)

Init ==
    /\ variant \in {"W", "C", "N", "A", "O", "D", "P"}
    /\ pc0 = "loop" /\ ret0 = "loop" /\ pc1 = "svc"
    /\ playing = FALSE /\ stopRequested = FALSE /\ eof = FALSE
    /\ available = 0 /\ readPos = 0 /\ writePos = 0 /\ underruns = 0
    /\ dataSize = 0 /\ dataPosition = 0 /\ numChannels = 1
    /\ mp3Buffer = [i \in 1..MP3_BUFFER_SIZE |-> "z"] /\ mp3Fill = 0
    /\ l_writePos = 0 /\ l_bytesToRead = 0 /\ l_stream = 0 /\ l_frame_bytes = 0
    /\ mutex = "free" /\ irq = "idle" /\ dma = FALSE
    /\ stream = 0 /\ stopStream = 0 /\ delivered = 0 /\ out = <<0, 0>>
    /\ resyncN = 0 /\ attempts = 0
    /\ failedStream = 0
    /\ readFailed = FALSE
    /\ audio_buffer = [i \in 0..(Capacity - 1) |-> 0] /\ stored = 0
    /\ frames_decoded = 0 /\ samples_decoded = 0 /\ player_channels = 0
    /\ held = {}
    /\ IF variant = "P"
         THEN /\ state = STATE_PLAY /\ fileOpen = TRUE
              /\ buffer \in PlayBytes
              /\ buffer_offset \in 0..Len(buffer)
              /\ data_length \in 0..MaxPlayBytes
              /\ block_offset \in 0..(AUDIO_BLOCK_SAMPLES - 1)
              /\ fileRest \in PlayBytes
         ELSE /\ state = STATE_STOP /\ fileOpen = FALSE
              /\ buffer = <<>> /\ buffer_offset = 0 /\ data_length = 0
              /\ block_offset = 0
              /\ fileRest = <<>>
    /\ passes = 0 /\ atEnd = FALSE
    /\ header \in (IF variant = "A" THEN HeaderMemory ELSE {ZeroHeader})
    /\ header_offset = 0 /\ total_length = 0
    /\ bytes2millis = 0 /\ played = <<>> /\ updates = 0
    /\ inputQueueArray \in (IF variant = "O" THEN Blocks \X Blocks ELSE {<<NULL, NULL>>})
    /\ sink = <<>>
    /\ pcm \in (IF variant = "D" THEN StereoBuffers ELSE {<<>>})
    /\ mono = <<>>

---------------------------------------------------------------------------
(* WAV player, Core0.                                                      *)

\* playTrack(): the test of player->playing.
W_playTrack ==
    /\ variant = "W" /\ pc0 = "loop" /\ stream < MaxPlays
    /\ IF playing
         THEN pc0' = "stopPlayer" /\ ret0' = "play"
         ELSE pc0' = "playReset" /\ ret0' = ret0
    /\ UNCHANGED <<variant, play, slots, fmt, mix, i2s, sdwav, obs, pc1, flags, ring, underruns, wav, mp3, locals, intr, hist>>

\* playTrack(): "Reset state", under the mutex.
W_playReset ==
    /\ variant = "W" /\ pc0 = "playReset" /\ mutex = "free"
    /\ dataPosition' = 0
    /\ readPos' = 0 /\ writePos' = 0 /\ available' = 0
    /\ underruns' = 0
    /\ playing' = TRUE
    /\ pc0' = "loop"
    /\ stream' = stream + 1 /\ delivered' = 0
    /\ audio_buffer' = [i \in 0..(Capacity - 1) |-> 0] /\ stored' = 0
    /\ UNCHANGED <<variant, play, fmt, mix, i2s, sdwav, obs, ret0, pc1, stopRequested, fileOpen, eof, dataSize,
                   numChannels, mp3, locals, intr, stopStream, out>>

\* stopAll(): calls stopPlayer for a player that is playing.
W_stopAll ==
    /\ variant = "W" /\ pc0 = "loop" /\ playing
    /\ pc0' = "stopPlayer" /\ ret0' = "loop"
    /\ UNCHANGED <<variant, play, slots, fmt, mix, i2s, sdwav, obs, pc1, flags, ring, underruns, wav, mp3, locals, intr, hist>>

\* stopPlayer(): player->stopRequested = true.
W_stopPlayer ==
    /\ variant = "W" /\ pc0 = "stopPlayer"
    /\ stopRequested' = TRUE
    /\ stopStream' = stream
    /\ pc0' = "stopWait"
    /\ UNCHANGED <<variant, play, slots, fmt, mix, i2s, sdwav, obs, ret0, pc1, playing, fileOpen, eof, ring, underruns, wav,
                   mp3, locals, intr, stream, delivered, out>>

\* stopPlayer(): the wait loop ends because playing is false.
W_stopDone ==
    /\ variant = "W" /\ pc0 = "stopWait" /\ ~playing
    /\ pc0' = IF ret0 = "play" THEN "playReset" ELSE "loop"
    /\ UNCHANGED <<variant, play, slots, fmt, mix, i2s, sdwav, obs, ret0, pc1, flags, ring, underruns, wav, mp3, locals, intr, hist>>

\* stopPlayer(): the wait loop ends because 1000 ms have passed.
W_stopTimeout ==
    /\ variant = "W" /\ pc0 = "stopWait" /\ playing
    /\ pc0' = IF ret0 = "play" THEN "playReset" ELSE "loop"
    /\ UNCHANGED <<variant, play, slots, fmt, mix, i2s, sdwav, obs, ret0, pc1, flags, ring, underruns, wav, mp3, locals, intr, hist>>

\* The underrun test with its comparison off by one: a ring holding exactly
\* one chunk is treated as an underrun.
W_underrun_offByOne == available <= CHUNK

\* serviceAudioQueue(): "Underrun - send silence".
W_underrun == available < CHUNK

\* serviceAudioQueue(), called by loop() while playing, with a queue buffer
\* obtained (a full queue returns at once, changing nothing).
W_serviceAudioQueue ==
    /\ variant = "W" /\ pc0 = "loop" /\ playing /\ mutex = "free"
    /\ IF W_underrun
         THEN /\ underruns < MaxUnderruns
              /\ underruns' = underruns + 1
              /\ out' = <<0, CHUNK>>
              /\ UNCHANGED <<available, readPos, delivered>>
         ELSE /\ readPos' = (readPos + CHUNK) % BUFFER_SIZE
              /\ available' = available - CHUNK
              /\ delivered' = delivered + CHUNK
              /\ out' = <<CHUNK, 0>>
              /\ UNCHANGED underruns
    /\ UNCHANGED <<variant, play, slots, fmt, mix, i2s, sdwav, obs, ctl, flags, writePos, wav, mp3, locals, intr, stream, stopStream>>

---------------------------------------------------------------------------
(* WAV player, Core1.                                                      *)

\* The start check without its test of stopRequested.
W_shouldStart_anyStop == playing /\ ~fileOpen

\* core1_servicePlayer(): "Check if we should start this player".
W_shouldStart == playing /\ ~fileOpen /\ ~stopRequested

\* core1_openFile(): the header is read whole and passes "Validate WAV format".
W_headerOk(f) ==
    /\ f.headerRead
    /\ f.riff = "RIFF" /\ f.wave = "WAVE"
    /\ f.audioFormat = 1 /\ f.bitsPerSample = 16

\* core1_openFile() without the `playing = false` of the header checks.
W_openFile_keepsPlaying(f) ==
    /\ pc1' = "stopchk"
    /\ IF ~f.open \/ ~W_headerOk(f) \/ ~f.data
         THEN /\ playing' = (f.open /\ ~W_headerOk(f))
              /\ fileOpen' = FALSE
              /\ numChannels' = IF f.open /\ W_headerOk(f) THEN f.channels ELSE numChannels
              /\ UNCHANGED dataSize
         ELSE /\ fileOpen' = TRUE
              /\ numChannels' = f.channels
              /\ dataSize' = f.size
              /\ UNCHANGED playing

\* core1_openFile(), on a file f of the card.
W_openFile(f) ==
    /\ pc1' = "stopchk"
    /\ IF ~f.open \/ ~W_headerOk(f) \/ ~f.data
         THEN /\ playing' = FALSE
              /\ fileOpen' = FALSE
              /\ numChannels' = IF f.open /\ W_headerOk(f) THEN f.channels ELSE numChannels
              /\ UNCHANGED dataSize
         ELSE /\ fileOpen' = TRUE
              /\ numChannels' = f.channels
              /\ dataSize' = f.size
              /\ UNCHANGED playing

W_open ==
    /\ variant = "W" /\ pc1 = "svc" /\ W_shouldStart /\ mutex = "free"
    /\ \E f \in WavFiles : W_openFile(f)
    /\ failedStream' = IF fileOpen' THEN failedStream ELSE stream
    /\ UNCHANGED <<variant, play, slots, fmt, mix, i2s, sdwav, held, readFailed, resyncN, attempts, pc0, ret0, stopRequested, eof, ring, underruns, dataPosition,
                   mp3, locals, intr, hist>>

\* The point of core1_servicePlayer() after the start check.
W_atStopCheck == pc1 = "stopchk" \/ (pc1 = "svc" /\ ~W_shouldStart)

\* core1_servicePlayer(): "Check if stop requested".
W_honourStop ==
    /\ variant = "W" /\ W_atStopCheck /\ mutex = "free"
    /\ stopRequested /\ fileOpen
    /\ fileOpen' = FALSE
    /\ playing' = FALSE
    /\ stopRequested' = FALSE
    /\ pc1' = "svc"
    /\ UNCHANGED <<variant, play, slots, fmt, mix, i2s, sdwav, obs, pc0, ret0, eof, ring, underruns, wav, mp3, locals, intr, hist>>

\* core1_servicePlayer(): neither stopping nor filling; the pass ends.
W_idle ==
    /\ variant = "W" /\ pc1 = "stopchk"
    /\ ~(stopRequested /\ fileOpen) /\ ~(playing /\ fileOpen)
    /\ pc1' = "svc"
    /\ UNCHANGED <<variant, play, slots, fmt, mix, i2s, sdwav, obs, pc0, ret0, flags, ring, underruns, wav, mp3, locals, intr, hist>>

\* The fill size without the clamp to the free space of the ring.
W_samplesToRead_noSpace(avail) == FILL_SAMPLES

\* core1_fillBuffer(): samples to read for the sampled occupancy `avail`.
W_samplesToRead(avail) == Min(BUFFER_SIZE - avail, FILL_SAMPLES)

\* core1_fillBuffer() up to the file reads: the occupancy and write index
\* are sampled under the mutex, then the sizes are computed.
W_fillBuffer ==
    /\ variant = "W" /\ W_atStopCheck /\ mutex = "free"
    /\ ~(stopRequested /\ fileOpen) /\ playing /\ fileOpen
    /\ LET bytesRemaining == USub(dataSize, dataPosition)
           samplesToRead  == W_samplesToRead(available)
           bytesToRead    == Min(samplesToRead * 2, bytesRemaining)
       IN  IF available > WavWatermark
             THEN /\ pc1 = "stopchk" /\ pc1' = "svc"
                  /\ UNCHANGED <<playing, fileOpen, locals>>
           ELSE IF bytesRemaining = 0
             THEN /\ fileOpen' = FALSE
                  /\ playing' = FALSE
                  /\ pc1' = "svc"
                  /\ UNCHANGED locals
           ELSE /\ l_writePos' = writePos
                /\ l_bytesToRead' = bytesToRead
                /\ l_stream' = stream
                /\ pc1' = "fill"
                /\ UNCHANGED <<playing, fileOpen, l_frame_bytes>>
    /\ held' = HeldOps(IF available <= WavWatermark /\ USub(dataSize, dataPosition) = 0
                      THEN W_finish_ops ELSE W_sample_ops, FALSE)
    /\ UNCHANGED <<variant, play, slots, fmt, mix, i2s, sdwav, resyncN, attempts, failedStream, readFailed,
                   pc0, ret0, stopRequested, eof, ring, underruns, wav, mp3,
                   intr, hist>>

\* Samples core1_fillBuffer() stores for bytesToRead bytes: every sample of
\* a mono file, one sample per left/right pair of a stereo file.
W_stored(bytesToRead) ==
    IF numChannels = 1 THEN bytesToRead \div 2 ELSE (bytesToRead \div 2) \div 2

\* core1_fillBuffer(): the file reads into the buffer, then the update of
\* the write index and the occupancy under the mutex.
W_fillCommit ==
    /\ variant = "W" /\ pc1 = "fill" /\ mutex = "free"
    /\ dataPosition' = dataPosition + l_bytesToRead
    /\ writePos' = (l_writePos + W_stored(l_bytesToRead)) % BUFFER_SIZE
    /\ available' = available + (l_bytesToRead \div 2)
    /\ audio_buffer' = StoreSamples(audio_buffer, l_writePos, W_stored(l_bytesToRead),
                                    l_stream = stream)
    /\ stored' = IF l_stream = stream THEN stored + W_stored(l_bytesToRead) ELSE stored
    /\ pc1' = "svc"
    /\ held' = HeldOps(W_commit_ops, FALSE)
    /\ UNCHANGED <<variant, play, fmt, mix, i2s, sdwav, resyncN, attempts, failedStream, readFailed,
                   pc0, ret0, flags, readPos, underruns, dataSize, numChannels,
                   mp3, locals, intr, hist>>

NextW ==
    \/ W_playTrack \/ W_playReset \/ W_stopAll \/ W_stopPlayer
    \/ W_stopDone \/ W_stopTimeout \/ W_serviceAudioQueue
    \/ W_open \/ W_honourStop \/ W_idle \/ W_fillBuffer \/ W_fillCommit

---------------------------------------------------------------------------
(* C MP3 player, Core0: process_command(), load_mp3_file(),                *)
(* stop_playback().  The main thread does not run while the interrupt      *)
(* handler spins on the mutex.                                             *)

\* process_command(): a file name; load_mp3_file() tests player.playing.
C_load ==
    /\ variant = "C" /\ pc0 = "loop" /\ irq = "idle" /\ stream < MaxPlays
    /\ IF playing
         THEN pc0' = "stop" /\ ret0' = "play"
         ELSE pc0' = "open" /\ ret0' = ret0
    /\ UNCHANGED <<variant, play, slots, fmt, mix, i2s, sdwav, obs, pc1, flags, ring, underruns, wav, mp3, locals, intr, hist>>

\* process_command(): "stop", for a player that is playing.
C_stopCommand ==
    /\ variant = "C" /\ pc0 = "loop" /\ irq = "idle" /\ playing
    /\ pc0' = "stop" /\ ret0' = "loop"
    /\ UNCHANGED <<variant, play, slots, fmt, mix, i2s, sdwav, obs, pc1, flags, ring, underruns, wav, mp3, locals, intr, hist>>

\* stop_playback(): player.stop_requested = true.
C_stop_playback ==
    /\ variant = "C" /\ pc0 = "stop" /\ irq = "idle"
    /\ stopRequested' = TRUE
    /\ stopStream' = stream
    /\ pc0' = "stopWait"
    /\ UNCHANGED <<variant, play, slots, fmt, mix, i2s, sdwav, obs, ret0, pc1, playing, fileOpen, eof, ring, underruns, wav,
                   mp3, locals, intr, stream, delivered, out>>

\* stop_playback(): the wait ends with playing false; audio_i2s_stop().
C_stopDone ==
    /\ variant = "C" /\ pc0 = "stopWait" /\ irq = "idle" /\ ~playing
    /\ dma' = FALSE
    /\ pc0' = IF ret0 = "play" THEN "open" ELSE "loop"
    /\ UNCHANGED <<variant, play, slots, fmt, mix, i2s, sdwav, obs, ret0, pc1, flags, ring, underruns, wav, mp3, locals,
                   mutex, irq, hist>>

\* stop_playback(): the wait ends after 2 s with playing still true:
\* "Warning: Timeout waiting for stop", playing is forced to false.
C_stopTimeout ==
    /\ variant = "C" /\ pc0 = "stopWait" /\ irq = "idle" /\ playing
    /\ playing' = FALSE
    /\ dma' = FALSE
    /\ pc0' = IF ret0 = "play" THEN "open" ELSE "loop"
    /\ UNCHANGED <<variant, play, slots, fmt, mix, i2s, sdwav, obs, ret0, pc1, stopRequested, fileOpen, eof, ring, underruns,
                   wav, mp3, locals, mutex, irq, hist>>

\* load_mp3_file(): f_open() fails, or opens the file f of the card.
C_f_open ==
    /\ variant = "C" /\ pc0 = "open" /\ irq = "idle"
    /\ \/ /\ pc0' = "loop"
          /\ UNCHANGED <<fileOpen, fileRest, stream>>
       \/ \E f \in Mp3Files :
          /\ fileRest' = f
          /\ fileOpen' = TRUE
          /\ stream' = stream + 1
          /\ pc0' = "lock"
    /\ UNCHANGED <<variant, play, slots, fmt, mix, i2s, sdwav, obs, ret0, pc1, playing, stopRequested, eof, ring, underruns,
                   wav, mp3Buffer, mp3Fill, locals, intr, stopStream, delivered, out>>

\* load_mp3_file(): mutex_enter_blocking() and "Reset state" up to eof.
C_reset ==
    /\ variant = "C" /\ pc0 = "lock" /\ irq = "idle" /\ mutex = "free"
    /\ mutex' = "main"
    /\ writePos' = 0 /\ readPos' = 0 /\ available' = 0
    /\ mp3Fill' = 0
    /\ underruns' = 0
    /\ eof' = FALSE
    /\ delivered' = 0
    /\ resyncN' = 0 /\ attempts' = 0
    /\ pc0' = "setPlaying"
    /\ readFailed' = FALSE
    /\ frames_decoded' = 0 /\ samples_decoded' = 0
    /\ audio_buffer' = [i \in 0..(Capacity - 1) |-> 0] /\ stored' = 0
    /\ UNCHANGED <<variant, play, player_channels, mix, i2s, sdwav, held, failedStream, ret0, pc1, playing, stopRequested, fileOpen, wav, mp3Buffer,
                   fileRest, locals, irq, dma, stream, stopStream, out>>

\* load_mp3_file(): player.playing = true, the mutex still held.
C_setPlaying ==
    /\ variant = "C" /\ pc0 = "setPlaying" /\ irq = "idle"
    /\ playing' = TRUE
    /\ pc0' = "unlock"
    /\ UNCHANGED <<variant, play, slots, fmt, mix, i2s, sdwav, obs, ret0, pc1, stopRequested, fileOpen, eof, ring, underruns,
                   wav, mp3, locals, intr, hist>>

\* load_mp3_file(): mutex_exit(), mp3_decoder_init(), return true.
C_unlock ==
    /\ variant = "C" /\ pc0 = "unlock" /\ irq = "idle"
    /\ mutex' = "free"
    /\ pc0' = "start"
    /\ UNCHANGED <<variant, play, slots, fmt, mix, i2s, sdwav, obs, ret0, pc1, flags, ring, underruns, wav, mp3, locals,
                   irq, dma, hist>>

\* process_command(): audio_i2s_start() after a successful load.
C_audio_i2s_start ==
    /\ variant = "C" /\ pc0 = "start" /\ irq = "idle"
    /\ dma' = TRUE
    /\ pc0' = "loop"
    /\ UNCHANGED <<variant, play, slots, fmt, mix, i2s, sdwav, obs, ret0, pc1, flags, ring, underruns, wav, mp3, locals,
                   mutex, irq, hist>>

\* dma_irq_handler() -> audio_callback(buffer, DMA_BUFFER_SIZE): the DMA
\* interrupt preempts whatever the main thread of Core0 is doing.  Core1
\* holds the mutex only within one step, so a mutex that is not free is
\* held by the preempted main thread: mutex_enter_blocking() then spins
\* (irq = "spin") and the main thread, which alone can release it, is
\* not resumed.
C_audio_callback ==
    /\ variant = "C" /\ dma /\ irq = "idle"
    /\ IF ~playing
         THEN /\ out' = <<0, DMA_BUFFER_SIZE>>
              /\ sink' = Silence(DMA_BUFFER_SIZE)
              /\ UNCHANGED <<available, readPos, underruns, delivered, irq>>
       ELSE IF mutex # "free"
         THEN /\ irq' = "spin"
              /\ UNCHANGED <<available, readPos, underruns, delivered, out, sink>>
       ELSE IF available >= DMA_BUFFER_SIZE
         THEN /\ readPos' = (readPos + DMA_BUFFER_SIZE) % AUDIO_BUFFER_SIZE
              /\ available' = available - DMA_BUFFER_SIZE
              /\ delivered' = delivered + DMA_BUFFER_SIZE
              /\ out' = <<DMA_BUFFER_SIZE, 0>>
              /\ UNCHANGED <<underruns, irq, sink>>
       ELSE /\ underruns < MaxUnderruns
            /\ underruns' = underruns + 1
            /\ out' = <<0, DMA_BUFFER_SIZE>>
            /\ sink' = Silence(DMA_BUFFER_SIZE)
            /\ UNCHANGED <<available, readPos, delivered, irq>>
    /\ UNCHANGED <<variant, play, slots, fmt, mix, inputQueueArray, sdwav, obs, ctl, flags, writePos, wav, mp3, locals,
                   mutex, dma, stream, stopStream>>

---------------------------------------------------------------------------
(* C MP3 player, Core1: core1_main_loop().                                 *)

\* core1_main_loop(): the test of playing and stop_requested, the sample
\* of the occupancy under the mutex and the 75% test.
C_core1_check ==
    /\ variant = "C" /\ pc1 = "svc"
    /\ IF playing /\ ~stopRequested
         THEN /\ mutex = "free"
              /\ pc1' = IF available < Mp3Watermark
                          THEN IF mp3Fill < MP3_BUFFER_SIZE \div 2 THEN "read" ELSE "decode"
                          ELSE "stopchk"
         ELSE pc1' = "stopchk"
    /\ UNCHANGED <<variant, play, slots, fmt, mix, i2s, sdwav, obs, pc0, ret0, flags, ring, underruns, wav, mp3, locals, intr, hist>>

\* read_mp3_data(); f_read() returns an error or up to to_read bytes.
C_read_mp3_data ==
    /\ variant = "C" /\ pc1 = "read"
    /\ pc1' = "decode"
    /\ LET space   == MP3_BUFFER_SIZE - mp3Fill
           to_read == Min(space, MP3_READ_CHUNK)
           n       == Min(to_read, Len(fileRest))
       IN  IF ~fileOpen \/ eof \/ space = 0
             THEN UNCHANGED <<mp3Buffer, mp3Fill, fileRest, eof, readFailed>>
             ELSE \/ /\ readFailed' = TRUE
                     /\ UNCHANGED <<mp3Buffer, mp3Fill, fileRest, eof>>
                  \/ /\ mp3Buffer' = StoreBytes(mp3Buffer, mp3Fill, SubSeq(fileRest, 1, n))
                     /\ mp3Fill' = mp3Fill + n
                     /\ fileRest' = SubSeq(fileRest, n + 1, Len(fileRest))
                     /\ eof' = (n < to_read \/ eof)
                     /\ UNCHANGED readFailed
    /\ resyncN' = Resync(mp3Buffer', mp3Fill', eof', FALSE)[1]
    /\ attempts' = Resync(mp3Buffer', mp3Fill', eof', FALSE)[2]
    /\ held' = HeldOps(C_read_ops, FALSE)
    /\ UNCHANGED <<variant, play, slots, fmt, mix, i2s, sdwav, failedStream, pc0, ret0, playing, stopRequested, fileOpen, ring, underruns,
                   wav, locals, intr, hist>>

\* decode_mp3_frame(): nothing to decode; at eof the stream is finished.
C_decodeEmpty ==
    /\ variant = "C" /\ pc1 = "decode" /\ mp3Fill = 0
    /\ IF eof
         THEN /\ mutex = "free"
              /\ fileOpen' = FALSE
              /\ playing' = FALSE
         ELSE UNCHANGED <<fileOpen, playing>>
    /\ pc1' = "stopchk"
    /\ UNCHANGED <<variant, play, slots, fmt, mix, i2s, sdwav, obs, pc0, ret0, stopRequested, eof, ring, underruns, wav, mp3,
                   locals, intr, hist>>

\* decode_mp3_frame(): a frame is decoded, pushed under the mutex and its
\* bytes are removed from the staging buffer.
C_decodeFrame ==
    /\ variant = "C" /\ pc1 = "decode" /\ mp3Fill > 0
    /\ LET info == Decode(mp3Buffer, mp3Fill)
           k    == Pushed(MonoSamples(info))
           remaining == mp3Fill - info.frame_bytes
       IN  /\ info.samples > 0
           /\ mutex = "free"
           /\ writePos' = (writePos + k) % AUDIO_BUFFER_SIZE
           /\ available' = available + k
           /\ IF info.frame_bytes > 0 /\ info.frame_bytes <= mp3Fill
                THEN /\ mp3Buffer' = MemMove(mp3Buffer, 0, info.frame_bytes, remaining)
                     /\ mp3Fill' = remaining
                ELSE UNCHANGED <<mp3Buffer, mp3Fill>>
    /\ resyncN' = Resync(mp3Buffer', mp3Fill', eof, FALSE)[1]
    /\ attempts' = Resync(mp3Buffer', mp3Fill', eof, FALSE)[2]
    /\ audio_buffer' = StoreSamples(audio_buffer, writePos,
                                    Pushed(MonoSamples(Decode(mp3Buffer, mp3Fill))), TRUE)
    /\ stored' = stored + Pushed(MonoSamples(Decode(mp3Buffer, mp3Fill)))
    /\ frames_decoded' = frames_decoded + 1
    /\ samples_decoded' = samples_decoded + MonoSamples(Decode(mp3Buffer, mp3Fill))
    /\ player_channels' = StoreFormat(frames_decoded + 1, player_channels, Decode(mp3Buffer, mp3Fill))
    /\ pc1' = "stopchk"
    /\ held' = HeldOps(C_decodeFrame_ops, FALSE)
    /\ UNCHANGED <<variant, play, mix, i2s, sdwav, readFailed, failedStream, pc0, ret0, flags, readPos, underruns, wav, fileRest,
                   locals, intr, hist>>

\* decode_mp3_frame(): "Decode failed - skip one byte for resync".
C_decodeSkip ==
    /\ variant = "C" /\ pc1 = "decode" /\ mp3Fill > 0
    /\ Decode(mp3Buffer, mp3Fill).samples = 0
    /\ mp3Buffer' = MemMove(mp3Buffer, 0, 1, mp3Fill - 1)
    /\ mp3Fill' = mp3Fill - 1
    /\ resyncN' = Resync(mp3Buffer', mp3Fill', eof, TRUE)[1]
    /\ attempts' = Resync(mp3Buffer', mp3Fill', eof, TRUE)[2]
    /\ pc1' = "stopchk"
    /\ held' = HeldOps(C_decodeSkip_ops, FALSE)
    /\ UNCHANGED <<variant, play, slots, fmt, mix, i2s, sdwav, readFailed, failedStream, pc0, ret0, flags, ring, underruns, wav, fileRest,
                   locals, intr, hist>>

\* core1_main_loop(): "if (player.stop_requested)".
C_core1_stop ==
    /\ variant = "C" /\ pc1 = "stopchk"
    /\ IF stopRequested
         THEN /\ mutex = "free"
              /\ fileOpen' = FALSE
              /\ playing' = FALSE
              /\ stopRequested' = FALSE
         ELSE UNCHANGED <<fileOpen, playing, stopRequested>>
    /\ pc1' = "svc"
    /\ UNCHANGED <<variant, play, slots, fmt, mix, i2s, sdwav, obs, pc0, ret0, eof, ring, underruns, wav, mp3, locals, intr, hist>>

NextC ==
    \/ C_load \/ C_stopCommand \/ C_stop_playback \/ C_stopDone \/ C_stopTimeout
    \/ C_f_open \/ C_reset \/ C_setPlaying \/ C_unlock \/ C_audio_i2s_start
    \/ C_audio_callback
    \/ C_core1_check \/ C_read_mp3_data \/ C_decodeEmpty \/ C_decodeFrame
    \/ C_decodeSkip \/ C_core1_stop

---------------------------------------------------------------------------
(* Multi-player MP3 player, Core0: playFile(), stopPlayer(), stopAll(),    *)
(* sendToAudioQueue().                                                     *)

\* playFile(): the test of p->playing.
N_playFile ==
    /\ variant = "N" /\ pc0 = "loop" /\ stream < MaxPlays
    /\ IF playing
         THEN pc0' = "stopPlayer" /\ ret0' = "play"
         ELSE pc0' = "playReset" /\ ret0' = ret0
    /\ UNCHANGED <<variant, play, slots, fmt, mix, i2s, sdwav, obs, pc1, flags, ring, underruns, wav, mp3, locals, intr, hist>>

\* playFile(): "Reset state", under the mutex.
N_playReset ==
    /\ variant = "N" /\ pc0 = "playReset" /\ mutex = "free"
    /\ stopRequested' = FALSE
    /\ eof' = FALSE
    /\ writePos' = 0 /\ readPos' = 0 /\ available' = 0
    /\ mp3Fill' = 0
    /\ underruns' = 0
    /\ playing' = TRUE
    /\ pc0' = "loop"
    /\ stream' = stream + 1 /\ delivered' = 0
    /\ resyncN' = 0 /\ attempts' = 0
    /\ frames_decoded' = 0 /\ samples_decoded' = 0
    /\ audio_buffer' = [i \in 0..(Capacity - 1) |-> 0] /\ stored' = 0
    /\ UNCHANGED <<variant, play, player_channels, mix, i2s, sdwav, held, readFailed, failedStream, ret0, pc1, fileOpen, wav, mp3Buffer, fileRest, locals,
                   intr, stopStream, out>>

\* stopAll(): calls stopPlayer for a player that is playing.
N_stopAll ==
    /\ variant = "N" /\ pc0 = "loop" /\ playing
    /\ pc0' = "stopPlayer" /\ ret0' = "loop"
    /\ UNCHANGED <<variant, play, slots, fmt, mix, i2s, sdwav, obs, pc1, flags, ring, underruns, wav, mp3, locals, intr, hist>>

\* stopPlayer(): "if (!p->playing) return;".
N_stopPlayer ==
    /\ variant = "N" /\ pc0 = "stopPlayer"
    /\ pc0' = IF playing THEN "stopSet"
              ELSE IF ret0 = "play" THEN "playReset" ELSE "loop"
    /\ UNCHANGED <<variant, play, slots, fmt, mix, i2s, sdwav, obs, ret0, pc1, flags, ring, underruns, wav, mp3, locals, intr, hist>>

\* stopPlayer(): p->stopRequested = true.
N_stopSet ==
    /\ variant = "N" /\ pc0 = "stopSet"
    /\ stopRequested' = TRUE
    /\ stopStream' = stream
    /\ pc0' = "stopWait"
    /\ UNCHANGED <<variant, play, slots, fmt, mix, i2s, sdwav, obs, ret0, pc1, playing, fileOpen, eof, ring, underruns, wav,
                   mp3, locals, intr, stream, delivered, out>>

\* stopPlayer(): the wait loop ends because playing is false.
N_stopDone ==
    /\ variant = "N" /\ pc0 = "stopWait" /\ ~playing
    /\ pc0' = IF ret0 = "play" THEN "playReset" ELSE "loop"
    /\ UNCHANGED <<variant, play, slots, fmt, mix, i2s, sdwav, obs, ret0, pc1, flags, ring, underruns, wav, mp3, locals, intr, hist>>

\* stopPlayer(): the wait loop ends because 2000 ms have passed.
N_stopTimeout ==
    /\ variant = "N" /\ pc0 = "stopWait" /\ playing
    /\ pc0' = IF ret0 = "play" THEN "playReset" ELSE "loop"
    /\ UNCHANGED <<variant, play, slots, fmt, mix, i2s, sdwav, obs, ret0, pc1, flags, ring, underruns, wav, mp3, locals, intr, hist>>

\* sendToAudioQueue(), called by loop() while playing, with a queue buffer
\* obtained (a full queue returns at once, changing nothing).
N_sendToAudioQueue ==
    /\ variant = "N" /\ pc0 = "loop" /\ playing /\ mutex = "free"
    /\ IF available < CHUNK
         THEN /\ underruns < MaxUnderruns
              /\ underruns' = underruns + 1
              /\ out' = <<0, CHUNK>>
              /\ UNCHANGED <<available, readPos, delivered>>
         ELSE /\ readPos' = (readPos + CHUNK) % AUDIO_BUFFER_SIZE
              /\ available' = available - CHUNK
              /\ delivered' = delivered + CHUNK
              /\ out' = <<CHUNK, 0>>
              /\ UNCHANGED underruns
    /\ UNCHANGED <<variant, play, slots, fmt, mix, i2s, sdwav, obs, ctl, flags, writePos, wav, mp3, locals, intr, stream, stopStream>>

---------------------------------------------------------------------------
(* Multi-player MP3 player, Core1: servicePlayer().                        *)

\* servicePlayer(): "Check if should start".
N_shouldStart == playing /\ ~fileOpen /\ ~stopRequested

\* p->file.available(): bytes are left in the open file.
N_fileAvailable == fileOpen /\ Len(fileRest) > 0

\* servicePlayer(): SD.open() fails, or opens the file f of the card.
N_open ==
    /\ variant = "N" /\ pc1 = "svc" /\ N_shouldStart /\ mutex = "free"
    /\ \/ /\ playing' = FALSE
          /\ pc1' = "svc"
          /\ UNCHANGED <<fileOpen, fileRest>>
       \/ \E f \in Mp3Files :
          /\ fileOpen' = TRUE
          /\ fileRest' = f
          /\ pc1' = "stopchk"
          /\ UNCHANGED playing
    /\ failedStream' = IF fileOpen' THEN failedStream ELSE stream
    /\ UNCHANGED <<variant, play, slots, fmt, mix, i2s, sdwav, held, readFailed, resyncN, attempts, pc0, ret0, stopRequested, eof, ring,
                   underruns, wav, mp3Buffer, mp3Fill, locals, intr, hist>>

\* The point of servicePlayer() after the start check.
N_atStopCheck == pc1 = "stopchk" \/ (pc1 = "svc" /\ ~N_shouldStart)

\* servicePlayer()'s stop branch, also emptying the ring.
N_honourStop_flush ==
    /\ variant = "N" /\ N_atStopCheck /\ mutex = "free"
    /\ stopRequested /\ fileOpen
    /\ fileOpen' = FALSE
    /\ playing' = FALSE
    /\ stopRequested' = FALSE
    /\ readPos' = 0 /\ writePos' = 0 /\ available' = 0
    /\ pc1' = "svc"
    /\ UNCHANGED <<variant, play, slots, fmt, mix, i2s, sdwav, obs, pc0, ret0, eof, underruns, wav, mp3, locals, intr, hist>>

\* servicePlayer(): "Check if should stop".
N_honourStop ==
    /\ variant = "N" /\ N_atStopCheck /\ mutex = "free"
    /\ stopRequested /\ fileOpen
    /\ fileOpen' = FALSE
    /\ playing' = FALSE
    /\ stopRequested' = FALSE
    /\ pc1' = "svc"
    /\ UNCHANGED <<variant, play, slots, fmt, mix, i2s, sdwav, obs, pc0, ret0, eof, ring, underruns, wav, mp3, locals, intr, hist>>

\* servicePlayer(): "Fill buffer if playing": the occupancy is sampled
\* under the mutex and fillAudioBufferFromMP3() is called below 75%.
N_service ==
    /\ variant = "N" /\ N_atStopCheck /\ mutex = "free"
    /\ ~(stopRequested /\ fileOpen) /\ playing /\ fileOpen
    /\ IF available < Mp3Watermark
         THEN pc1' = "fill"
         ELSE pc1 = "stopchk" /\ pc1' = "svc"
    /\ UNCHANGED <<variant, play, slots, fmt, mix, i2s, sdwav, obs, pc0, ret0, flags, ring, underruns, wav, mp3, locals, intr, hist>>

\* fillAudioBufferFromMP3(): "Refill MP3 buffer if needed";
\* refillMP3Buffer() moves mp3BufferFill bytes from the end of the memory
\* to its start and reads up to SD_READ_CHUNK bytes behind them.
N_refillMP3Buffer ==
    /\ variant = "N" /\ pc1 = "fill"
    /\ pc1' = "decode"
    /\ LET shifted == IF mp3Fill > 0
                        THEN MemMove(mp3Buffer, 0, MP3_BUFFER_SIZE - mp3Fill, mp3Fill)
                        ELSE mp3Buffer
           toRead  == Min(MP3_BUFFER_SIZE - mp3Fill, SD_READ_CHUNK)
           n       == Min(toRead, Len(fileRest))
       IN  IF mp3Fill < MP3_BUFFER_SIZE \div 2 /\ N_fileAvailable
             THEN /\ mp3Buffer' = StoreBytes(shifted, mp3Fill, SubSeq(fileRest, 1, n))
                  /\ mp3Fill' = mp3Fill + n
                  /\ fileRest' = SubSeq(fileRest, n + 1, Len(fileRest))
             ELSE UNCHANGED <<mp3Buffer, mp3Fill, fileRest>>
    /\ resyncN' = Resync(mp3Buffer', mp3Fill', Len(fileRest') = 0, FALSE)[1]
    /\ attempts' = Resync(mp3Buffer', mp3Fill', Len(fileRest') = 0, FALSE)[2]
    /\ held' = HeldOps(N_refill_ops, FALSE)
    /\ UNCHANGED <<variant, play, slots, fmt, mix, i2s, sdwav, readFailed, failedStream, pc0, ret0, flags, ring, underruns, wav, locals, intr, hist>>

\* fillAudioBufferFromMP3(): the staging buffer is empty, nothing is decoded.
N_decodeNone ==
    /\ variant = "N" /\ pc1 = "decode" /\ mp3Fill = 0
    /\ pc1' = "svc"
    /\ UNCHANGED <<variant, play, slots, fmt, mix, i2s, sdwav, obs, pc0, ret0, flags, ring, underruns, wav, mp3, locals, intr, hist>>

\* fillAudioBufferFromMP3(): a frame is decoded, pushed under the mutex and
\* its bytes are removed from the staging buffer.
N_decodeFrame ==
    /\ variant = "N" /\ pc1 = "decode" /\ mp3Fill > 0 /\ mutex = "free"
    /\ LET info == Decode(mp3Buffer, mp3Fill)
           k    == Pushed(MonoSamples(info))
           rest == USub(mp3Fill, info.frame_bytes)
       IN  /\ info.samples > 0
           /\ writePos' = (writePos + k) % AUDIO_BUFFER_SIZE
           /\ available' = available + k
           /\ IF info.frame_bytes > 0
                THEN /\ mp3Fill' = rest
                     /\ mp3Buffer' = IF rest > 0
                                       THEN MemMove(mp3Buffer, 0, info.frame_bytes, rest)
                                       ELSE mp3Buffer
                ELSE UNCHANGED <<mp3Buffer, mp3Fill>>
    /\ resyncN' = Resync(mp3Buffer', mp3Fill', Len(fileRest) = 0, FALSE)[1]
    /\ attempts' = Resync(mp3Buffer', mp3Fill', Len(fileRest) = 0, FALSE)[2]
    /\ audio_buffer' = StoreSamples(audio_buffer, writePos,
                                    Pushed(MonoSamples(Decode(mp3Buffer, mp3Fill))), TRUE)
    /\ stored' = stored + Pushed(MonoSamples(Decode(mp3Buffer, mp3Fill)))
    /\ frames_decoded' = frames_decoded + 1
    /\ samples_decoded' = samples_decoded + MonoSamples(Decode(mp3Buffer, mp3Fill))
    /\ player_channels' = StoreFormat(frames_decoded + 1, player_channels, Decode(mp3Buffer, mp3Fill))
    /\ pc1' = "svc"
    /\ held' = HeldOps(N_decodeFrame_ops, FALSE)
    /\ UNCHANGED <<variant, play, mix, i2s, sdwav, readFailed, failedStream, pc0, ret0, flags, readPos, underruns, wav, fileRest,
                   locals, intr, hist>>

\* fillAudioBufferFromMP3(): a frame is decoded and pushed under the mutex;
\* Core0 runs before Core1 goes on to "Remove decoded bytes".
N_decodePush ==
    /\ variant = "N" /\ pc1 = "decode" /\ mp3Fill > 0 /\ mutex = "free"
    /\ LET info == Decode(mp3Buffer, mp3Fill)
           k    == Pushed(MonoSamples(info))
       IN  /\ info.samples > 0
           /\ writePos' = (writePos + k) % AUDIO_BUFFER_SIZE
           /\ available' = available + k
           /\ audio_buffer' = StoreSamples(audio_buffer, writePos, k, TRUE)
           /\ stored' = stored + k
           /\ frames_decoded' = frames_decoded + 1
           /\ samples_decoded' = samples_decoded + MonoSamples(info)
           /\ player_channels' = StoreFormat(frames_decoded + 1, player_channels, info)
           /\ l_frame_bytes' = info.frame_bytes
    /\ pc1' = "remove"
    /\ held' = HeldOps(N_decodeFrame_ops, FALSE)
    /\ UNCHANGED <<variant, play, mix, i2s, sdwav, resyncN, attempts, readFailed, failedStream,
                   pc0, ret0, flags, readPos, underruns, wav, mp3,
                   l_writePos, l_bytesToRead, l_stream, intr, hist>>

\* fillAudioBufferFromMP3(): "Remove decoded bytes", after Core0 has run:
\* mp3BufferFill -= info.frame_bytes is made on the fill level as it is now.
\* With a wrapped fill level the memmove runs past the end of the memory
\* and Core1 stops in a fault.
N_removeDecoded ==
    /\ variant = "N" /\ pc1 = "remove"
    /\ LET rest == USub(mp3Fill, l_frame_bytes)
       IN  IF l_frame_bytes = 0
             THEN /\ pc1' = "svc"
                  /\ UNCHANGED <<mp3Buffer, mp3Fill, resyncN, attempts>>
           ELSE IF rest <= MP3_BUFFER_SIZE
             THEN /\ mp3Fill' = rest
                  /\ mp3Buffer' = IF rest > 0
                                    THEN MemMove(mp3Buffer, 0, l_frame_bytes, rest)
                                    ELSE mp3Buffer
                  /\ resyncN' = Resync(mp3Buffer', rest, Len(fileRest) = 0, FALSE)[1]
                  /\ attempts' = Resync(mp3Buffer', rest, Len(fileRest) = 0, FALSE)[2]
                  /\ pc1' = "svc"
           ELSE /\ mp3Fill' = rest
                /\ mp3Buffer' = MemMove(mp3Buffer, 0, l_frame_bytes,
                                        MP3_BUFFER_SIZE - l_frame_bytes)
                /\ pc1' = "fault"
                /\ UNCHANGED <<resyncN, attempts>>
    /\ l_frame_bytes' = 0
    /\ held' = {}
    /\ UNCHANGED <<variant, play, slots, fmt, mix, i2s, sdwav, readFailed, failedStream,
                   pc0, ret0, flags, ring, underruns, wav, fileRest,
                   l_writePos, l_bytesToRead, l_stream, intr, hist>>

\* The end-of-stream test without its staging part.
N_endOfStream_anyFill(fill) == ~N_fileAvailable

\* fillAudioBufferFromMP3(): "Check EOF", on the fill level after the skip.
N_endOfStream(fill) == ~N_fileAvailable /\ fill < MIN_FRAME_BYTES

\* fillAudioBufferFromMP3(): "Decode failed - skip byte", then "Check EOF".
N_decodeSkip ==
    /\ variant = "N" /\ pc1 = "decode" /\ mp3Fill > 0 /\ mutex = "free"
    /\ Decode(mp3Buffer, mp3Fill).samples = 0
    /\ mp3Fill' = mp3Fill - 1
    /\ mp3Buffer' = MemMove(mp3Buffer, 0, 1, mp3Fill - 1)
    /\ IF N_endOfStream(mp3Fill - 1)
         THEN /\ fileOpen' = FALSE
              /\ playing' = FALSE
              /\ eof' = TRUE
         ELSE UNCHANGED <<fileOpen, playing, eof>>
    /\ resyncN' = Resync(mp3Buffer', mp3Fill', Len(fileRest) = 0, TRUE)[1]
    /\ attempts' = Resync(mp3Buffer', mp3Fill', Len(fileRest) = 0, TRUE)[2]
    /\ pc1' = "svc"
    /\ held' = HeldOps(N_decodeSkip_ops, FALSE)
    /\ UNCHANGED <<variant, play, slots, fmt, mix, i2s, sdwav, readFailed, failedStream, pc0, ret0, stopRequested, ring, underruns, wav, fileRest,
                   locals, intr, hist>>

NextN ==
    \/ N_playFile \/ N_playReset \/ N_stopAll \/ N_stopPlayer \/ N_stopSet
    \/ N_stopDone \/ N_stopTimeout \/ N_sendToAudioQueue
    \/ N_open \/ N_honourStop \/ N_service \/ N_refillMP3Buffer
    \/ N_decodeNone \/ N_decodeFrame \/ N_decodeSkip
    \/ N_decodePush \/ N_removeDecoded

---------------------------------------------------------------------------
(* AudioPlaySdWav: play(), stop(), update() with parse_format() and        *)
(* consume().  The operators work on a record of the object's members.     *)

\* The members of the object, with the file, the fill level of the audio
\* blocks of the running update() and the samples it has transmitted.
Members ==
    [state |-> state, buffer |-> buffer, buffer_offset |-> buffer_offset,
     header |-> header, header_offset |-> header_offset,
     data_length |-> data_length, total_length |-> total_length,
     bytes2millis |-> bytes2millis, open |-> fileOpen, rest |-> fileRest,
     block_offset |-> 0, sent |-> 0, ret |-> FALSE]

\* stop().
Stopped(p) ==
    IF p.state # STATE_STOP
      THEN [p EXCEPT !.state = STATE_STOP, !.open = FALSE]
      ELSE p

\* parse_format(), from `if (header_offset < 16) continue;` on: the checks
\* at header_offset 16, 17 and >= 18.  The result has ret = TRUE where the
\* loop goes on, ret = FALSE after `goto abort`.
HeaderChecks(p) ==
    LET a == IF p.header_offset = 16
               THEN IF Word(p.header, 0) # RIFF \/ Word(p.header, 2) # WAVE
                      THEN [Stopped(p) EXCEPT !.ret = FALSE]
                      ELSE [p EXCEPT !.header_offset = 17, !.ret = TRUE]
               ELSE [p EXCEPT !.ret = TRUE]
        b == IF a.ret /\ a.header_offset = 17
               THEN IF Word(a.header, 3) = FMT
                      THEN [a EXCEPT !.header_offset = 18]
                      ELSE [a EXCEPT !.header_offset = 16,
                                     !.header = [i \in 1..32 |->
                                                  IF i <= 12 THEN a.header[i + 4]
                                                  ELSE a.header[i]]]
               ELSE a
        format   == LE(SubSeq(b.header, 17, 18))
        channels == LE(SubSeq(b.header, 19, 20))
        b_rate   == LE(Word(b.header, 6))
        bits     == LE(SubSeq(b.header, 31, 32))
    IN  IF b.ret /\ b.header_offset >= 18
          THEN IF format # 1 \/ channels # 2 \/ bits # 16
                 THEN [Stopped(b) EXCEPT !.ret = FALSE]
                 ELSE [b EXCEPT !.bytes2millis = b_rate \div 1000,
                                !.header_offset = 16,
                                !.state = STATE_PARSE3]
          ELSE b

\* parse_format(): `while (state != STATE_PLAY)` and the code behind it.
RECURSIVE parse_format(_)
parse_format(p) ==
    IF p.state # STATE_PLAY
      THEN IF p.buffer_offset >= Len(p.buffer)
             THEN [p EXCEPT !.ret = FALSE]
             ELSE LET q == [p EXCEPT
                              !.header[p.header_offset + 1] = p.buffer[p.buffer_offset + 1],
                              !.header_offset = p.header_offset + 1,
                              !.buffer_offset = p.buffer_offset + 1]
                  IN  IF q.header_offset < 16
                        THEN parse_format(q)
                        ELSE LET r == HeaderChecks(q)
                             IN  IF r.ret THEN parse_format(r) ELSE r
      ELSE IF p.state = STATE_PARSE3 /\ p.header_offset >= 18
                /\ Word(p.header, 3) = DATA
             THEN [p EXCEPT !.data_length = LE(Word(p.header, 4)),
                            !.total_length = LE(Word(p.header, 4)),
                            !.state = STATE_PLAY, !.ret = TRUE]
             ELSE [p EXCEPT !.ret = FALSE]

\* wavfile.read(buffer, 512): the bytes read become the buffer.
ReadChunk(p) ==
    LET n == Min(WAV_READ_BYTES, Len(p.rest))
    IN  [p EXCEPT !.buffer = SubSeq(p.rest, 1, n),
                  !.rest = SubSeq(p.rest, n + 1, Len(p.rest))]

\* consume(size): whole stereo frames of 4 bytes go to the audio blocks.
consume(p, size) ==
    IF size = 0
      THEN [p EXCEPT !.ret = FALSE]
      ELSE LET k == Min(size \div 4, AUDIO_BLOCK_SAMPLES - p.block_offset)
           IN  [p EXCEPT !.block_offset = p.block_offset + k,
                         !.buffer_offset = p.buffer_offset + 4 * k,
                         !.data_length = p.data_length - 4 * k,
                         !.ret = TRUE]

\* update(): the `while (1) switch (state)` up to the label `end`; `sent`
\* counts the samples of the blocks handed to transmit().  PlayPass is one
\* pass of `case STATE_PLAY`: the members after it and whether the loop
\* goes on (`continue`) or is left (`goto end`).
RECURSIVE UpdateLoop(_)
PlayPass(p) ==
    LET n0 == USub(Len(p.buffer), p.buffer_offset)
        q  == IF n0 = 0 THEN ReadChunk(p) ELSE p
        q1 == IF n0 = 0 THEN [q EXCEPT !.buffer_offset = 0] ELSE q
        n  == Min(IF n0 = 0 THEN Len(q1.buffer) ELSE n0, q1.data_length)
        r  == consume(q1, n)
    IN  IF n0 = 0 /\ p.data_length = 0 THEN <<p, FALSE>>
        ELSE IF n0 = 0 /\ Len(q.buffer) = 0 THEN <<q, FALSE>>
        ELSE IF ~r.ret THEN <<r, FALSE>>
        ELSE IF r.block_offset >= AUDIO_BLOCK_SAMPLES
          THEN <<[r EXCEPT !.sent = r.sent + r.block_offset], FALSE>>
        ELSE <<r, TRUE>>

PlayStage(p) ==
    LET t == PlayPass(p)
    IN  IF t[2] THEN UpdateLoop(t[1]) ELSE t[1]

ParseStage(p) ==
    LET q == parse_format(p)
    IN  IF ~q.ret THEN q
        ELSE IF q.state # STATE_PLAY THEN UpdateLoop(q)
        ELSE PlayStage(q)

UpdateLoop(p) ==
    IF p.state = STATE_STOP THEN p
    ELSE IF p.state = STATE_PARSE1
      THEN LET q == ReadChunk(p)
           IN  IF Len(q.buffer) = 0
                 THEN q
                 ELSE ParseStage([q EXCEPT !.buffer_offset = 0, !.state = STATE_PARSE2])
    ELSE IF p.state \in {STATE_PARSE2, STATE_PARSE3, STATE_PARSE4, STATE_PARSE5}
      THEN ParseStage(p)
    ELSE PlayStage(p)

\* update(): the code at the label `end`.
AtEnd(p) ==
    IF p.block_offset > 0 THEN [p EXCEPT !.sent = p.sent + p.block_offset] ELSE p

\* The members after the operation that leaves the record p.
Assign(p) ==
    /\ state' = p.state /\ buffer' = p.buffer /\ buffer_offset' = p.buffer_offset
    /\ header' = p.header /\ header_offset' = p.header_offset
    /\ data_length' = p.data_length /\ total_length' = p.total_length
    /\ bytes2millis' = p.bytes2millis
    /\ fileOpen' = p.open /\ fileRest' = p.rest

\* play(filename): stop(), then SD.open() fails or opens the file f.
A_play ==
    /\ variant = "A" /\ stream < MaxPlays
    /\ \/ /\ Assign(Stopped(Members))
          /\ UNCHANGED <<played, updates>>
       \/ \E f \in AudioFiles :
          /\ Assign([Stopped(Members) EXCEPT
                       !.open = TRUE, !.rest = f, !.buffer = <<>>,
                       !.buffer_offset = 0, !.data_length = 0,
                       !.header_offset = 0, !.state = STATE_PARSE1])
          /\ played' = f
          /\ updates' = 0
    /\ stream' = stream + 1
    /\ delivered' = 0
    /\ UNCHANGED <<variant, play, slots, fmt, mix, i2s, ctl, playing, stopRequested, eof, ring, underruns, wav,
                   mp3Buffer, mp3Fill, locals, intr, stopStream, out, obs>>

\* stop() called by the sketch.
A_stop ==
    /\ variant = "A" /\ state # STATE_STOP
    /\ Assign(Stopped(Members))
    /\ UNCHANGED <<variant, play, slots, fmt, mix, i2s, ctl, playing, stopRequested, eof, ring, underruns, wav,
                   mp3Buffer, mp3Fill, locals, intr, hist, obs, played, updates>>

\* update() while not stopped, with both audio blocks allocated.
A_update ==
    /\ variant = "A" /\ state # STATE_STOP /\ updates < MaxUpdates
    /\ LET p == AtEnd(UpdateLoop(Members))
       IN  /\ Assign(p)
           /\ delivered' = delivered + p.sent
    /\ updates' = updates + 1
    /\ UNCHANGED <<variant, play, slots, fmt, mix, i2s, ctl, playing, stopRequested, eof, ring, underruns, wav,
                   mp3Buffer, mp3Fill, locals, intr, stream, stopStream, out, obs, played>>

NextA == A_play \/ A_stop \/ A_update

---------------------------------------------------------------------------
(* AudioOutputI2S (lib/pico-audio/AudioOutputI2S.h).                       *)

\* update(): takes the block of each input (receiveReadOnly), writes tmp to
\* the I2S and releases the blocks.
O_update ==
    /\ variant = "O"
    /\ sink' = I2STmp(inputQueueArray[1], inputQueueArray[2])
    /\ inputQueueArray' = <<NULL, NULL>>
    /\ UNCHANGED <<variant, play, slots, fmt, mix, ctl, flags, ring, underruns, wav, mp3, locals, intr, hist,
                   obs, sdwav>>

NextO == O_update

---------------------------------------------------------------------------
(* The stereo-to-mono downmix, run once on the buffer Init chose.          *)

\* decode_mp3_frame() (C): mp3_decoder_convert_to_mono(pcm, samples, mono).
D_convert_to_mono ==
    /\ variant = "D" /\ mono = <<>>
    /\ mono' = mp3_decoder_convert_to_mono(pcm, Len(pcm))
    /\ UNCHANGED <<variant, play, slots, fmt, pcm, i2s, ctl, flags, ring, underruns, wav, mp3, locals, intr,
                   hist, obs, sdwav>>

\* fillAudioBufferFromMP3() (N): monoSamples = samples / 2 and the in-place
\* loop; pcm[0 .. monoSamples-1] is what is pushed.
D_inPlace ==
    /\ variant = "D" /\ mono = <<>>
    /\ LET monoSamples == Len(pcm) \div 2
       IN  /\ pcm' = InPlaceMono(pcm, 1, monoSamples)
           /\ mono' = SubSeq(pcm', 1, monoSamples)
    /\ UNCHANGED <<variant, play, slots, fmt, i2s, ctl, flags, ring, underruns, wav, mp3, locals, intr,
                   hist, obs, sdwav>>

\* core1_fillBuffer() (W): the stereo branch on samplesToRead values.
D_mixToMono ==
    /\ variant = "D" /\ mono = <<>>
    /\ mono' = MixToMono(pcm, Len(pcm))
    /\ UNCHANGED <<variant, play, slots, fmt, pcm, i2s, ctl, flags, ring, underruns, wav, mp3, locals, intr,
                   hist, obs, sdwav>>

NextD == D_convert_to_mono \/ D_inPlace \/ D_mixToMono

---------------------------------------------------------------------------
(* The STATE_PLAY case of AudioPlaySdWav::update(), pass by pass.          *)

\* update(): one pass of the loop in STATE_PLAY, the audio blocks holding
\* block_offset samples; a pass that leaves the loop runs the code at `end`.
P_playPass ==
    /\ variant = "P" /\ state = STATE_PLAY /\ ~atEnd /\ passes < MaxPasses
    /\ LET t == PlayPass([Members EXCEPT !.block_offset = block_offset])
       IN  /\ Assign(t[1])
           /\ block_offset' = t[1].block_offset
           /\ delivered' = delivered + (IF t[2] THEN 0 ELSE AtEnd(t[1]).sent)
           /\ atEnd' = ~t[2]
    /\ passes' = passes + 1
    /\ UNCHANGED <<variant, slots, fmt, mix, i2s, ctl, playing, stopRequested, eof, ring,
                   underruns, wav, mp3Buffer, mp3Fill, locals, intr, stream, stopStream,
                   out, obs, played, updates>>

NextP == P_playPass

Next == NextW \/ NextC \/ NextN \/ NextA \/ NextO \/ NextD \/ NextP

Spec == Init /\ [][Next]_vars

\* The WAV player alone, with Core1 running its service loop for ever
\* (core1_main's `while (true)`): a step of Core1 that stays possible is taken.
InitW == Init /\ variant = "W"

Core1W == W_open \/ W_honourStop \/ W_idle \/ W_fillBuffer \/ W_fillCommit

FairSpecW == InitW /\ [][NextW]_vars /\ WF_vars(Core1W)

\* The multi-player MP3 player alone, with Core1 running its service loop
\* for ever (core1_main's `while (true)`) and loop() on Core0 sending chunks
\* to the audio queue whenever the player is playing.
InitN == Init /\ variant = "N"

Core1N ==
    \/ N_open \/ N_honourStop \/ N_service \/ N_refillMP3Buffer
    \/ N_decodeNone \/ N_decodeFrame \/ N_decodeSkip
    \/ N_decodePush \/ N_removeDecoded

FairSpecN ==
    InitN /\ [][NextN]_vars /\ WF_vars(Core1N) /\ WF_vars(N_sendToAudioQueue)

\* The steps of the command and consumer context of the three dual-core
\* players: loop() / main() on Core0 and, in the C player, the DMA interrupt.
Core0 ==
    \/ W_playTrack \/ W_playReset \/ W_stopAll \/ W_stopPlayer
    \/ W_stopDone \/ W_stopTimeout \/ W_serviceAudioQueue
    \/ C_load \/ C_stopCommand \/ C_stop_playback \/ C_stopDone \/ C_stopTimeout
    \/ C_f_open \/ C_reset \/ C_setPlaying \/ C_unlock \/ C_audio_i2s_start
    \/ C_audio_callback
    \/ N_playFile \/ N_playReset \/ N_stopAll \/ N_stopPlayer \/ N_stopSet
    \/ N_stopDone \/ N_stopTimeout \/ N_sendToAudioQueue

---------------------------------------------------------------------------
(* The claims.                                                             *)

\* C1: in every reachable state the occupancy of the ring buffer is at least
\* 0 and at most the capacity, whatever the interleaving of the producer's
\* pushes, the consumer's pops and the reset of a play request.
C1_OccupancyInRange == 0 <= available /\ available <= Capacity

\* C1, its case: the ring is full in a second stream (after a reset) whose
\* consumer has already popped.
C1_Witness == available = Capacity /\ delivered > 0 /\ stream > 1

\* C2: in every reachable state the occupancy equals the distance from the
\* read index to the write index modulo the capacity, for mono and stereo
\* sources, in every variant.
C2_CountMatchesIndices ==
    available % Capacity = (writePos - readPos) % Capacity

\* C3: a consumer invocation that emits a chunk while the player is
\* streaming either finds fewer samples than a chunk, and then the whole
\* chunk is silence, the occupancy and the read index are unchanged and the
\* underrun count grows by exactly 1; or it emits a whole chunk of real
\* samples, the occupancy drops by the chunk size, the read index advances
\* by the chunk size modulo the capacity and the underrun count is unchanged.
\* (An invocation that does not get the lock emits nothing: see C4.)
C3_AllOrNothing ==
    [][ ( /\ W_serviceAudioQueue \/ C_audio_callback \/ N_sendToAudioQueue
          /\ playing
          /\ irq' = irq )
        => IF available < ChunkSize
             THEN /\ out' = <<0, ChunkSize>>
                  /\ available' = available
                  /\ readPos' = readPos
                  /\ underruns' = underruns + 1
                  /\ delivered' = delivered
             ELSE /\ out' = <<ChunkSize, 0>>
                  /\ available' = available - ChunkSize
                  /\ readPos' = (readPos + ChunkSize) % Capacity
                  /\ underruns' = underruns
                  /\ delivered' = delivered + ChunkSize ]_vars

\* C3, its case: in one stream the consumer has both counted an underrun
\* and delivered real samples, the last chunk being silence.
C3_Witness ==
    playing /\ underruns > 0 /\ delivered > 0 /\ out = <<0, ChunkSize>>

\* C4: the consumer never waits for ever on the player's lock, also when
\* the interrupt preempts a load that holds the lock after setting playing.
C4_ConsumerNeverBlocks == ~(irq = "spin" /\ mutex = "main")

\* C5: a stop requested on a streaming player is eventually honoured by the
\* running producer: playing and the stop flag are false and the file is
\* closed, also when the stop comes before the producer has opened the file.
C5_StopHonoured ==
    (playing /\ stopRequested) ~> (~playing /\ ~stopRequested /\ ~fileOpen)

\* C6: a call of stop on a player that is not playing changes no field of
\* the player.
C6_StopOnIdleIsNoOp ==
    [][ ( /\ W_stopPlayer \/ C_stop_playback \/ N_stopPlayer
          /\ ~playing )
        => UNCHANGED <<flags, ring, underruns, wav, mp3>> ]_vars

\* C7: the producer stores a write index and an occupancy increment only
\* into the stream they were computed for, never after the reset of a later
\* play request, also when the stop before that request timed out.
C7_NoStaleCommit == [][ W_fillCommit => l_stream = stream ]_vars

\* C8: when the producer honours a stop flag that was set for an earlier
\* stream, it neither closes the file nor clears playing of a stream a later
\* play request has opened.
C8_LateStopHarmless ==
    [][ (C_core1_stop /\ stopRequested /\ stopStream < stream)
        => (fileOpen' = fileOpen /\ playing' = playing) ]_vars

\* C9: when the producer ends a stream at the end of the data (playing
\* becomes false with no stop requested), the staging buffer and the ring
\* buffer are empty.
C9_FinishOnlyWhenDrained ==
    [][ ( /\ W_fillBuffer \/ C_decodeEmpty \/ N_decodeSkip
          /\ playing /\ ~playing' )
        => (available = 0 /\ mp3Fill' = 0) ]_vars

\* C10: a mono WAV stream of S samples that is played to its end without a
\* stop, the consumer firing, ends Finished with the file closed and with
\* the real samples delivered within one chunk of S.
C10_EndToEnd ==
    ( /\ variant = "W" /\ numChannels = 1
      /\ stream = 1 /\ stopStream = 0
      /\ dataSize > 0 /\ dataPosition = dataSize
      /\ ~playing /\ delivered > 0 )
    => /\ ~fileOpen
       /\ dataSize \div 2 - delivered <= CHUNK
       /\ delivered - dataSize \div 2 <= CHUNK

\* C11: a playing stream whose file has no more bytes and for which no stop
\* is requested is eventually declared finished by the running producer
\* (file closed, playing false), whatever the staging buffer holds, also
\* when the last decode succeeds and leaves the staging buffer empty.
C11_EofFinishes ==
    (playing /\ fileOpen /\ Len(fileRest) = 0 /\ ~stopRequested)
        ~> (~playing /\ ~fileOpen)

\* C12: a resync run that begins with N staging bytes holding no frame
\* header, the reader at the end of the data, makes exactly N failed decode
\* attempts (one byte each) before the producer declares the end of the stream.
C12_ResyncBound ==
    [][ ((N_decodeSkip \/ C_decodeEmpty) /\ resyncN > 0 /\ playing /\ ~playing')
          => attempts' = resyncN ]_vars

\* C13: a failed decode attempt that leaves fewer than MIN_FRAME_BYTES bytes
\* in the staging buffer while the file has no more bytes finishes the stream
\* (file closed, playing false, eof set: finished, not an error); a failed
\* decode attempt with data still available leaves the stream playing.  In
\* the C player a failed attempt never ends the stream, and the empty staging
\* buffer at eof finishes it.
C13_FailedDecodeAtEnd ==
    [][ /\ N_decodeSkip =>
             IF Len(fileRest) = 0 /\ mp3Fill' < MIN_FRAME_BYTES
               THEN ~playing' /\ ~fileOpen' /\ eof'
               ELSE UNCHANGED <<playing, fileOpen, eof>>
        /\ C_decodeSkip => UNCHANGED <<playing, fileOpen>>
        /\ (C_decodeEmpty /\ eof) => (~playing' /\ ~fileOpen')
      ]_vars

\* C13 witness: the multi-player MP3 player has finished a stream by a failed
\* decode attempt at the end of the file, after a failed attempt earlier in
\* the same resync run left the stream playing.
C13_Witness ==
    /\ variant = "N" /\ eof /\ ~playing /\ ~fileOpen
    /\ attempts > 1 /\ mp3Fill < MIN_FRAME_BYTES

C15_ReadErrorEndsStream ==
    [][ (C_core1_stop /\ readFailed) => ~playing' ]_vars

\* C16: a stream that begins with a valid RIFF/WAVE header with a 16-bit
\* linear-PCM format chunk of a supported channel count and a data chunk
\* brings the parser to Ready with the length of the data chunk recorded:
\* update() on the valid stereo file ends in STATE_PLAY with total_length the
\* declared length, and core1_openFile leaves the file open, the player
\* playing and dataSize the declared length.
C16_ValidHeaderReady ==
    [][ /\ (A_update /\ state = STATE_PARSE1 /\ fileRest = ValidWav)
             => (state' = STATE_PLAY /\ total_length' = WavDataBytes)
        /\ \A f \in WavFiles :
             (W_open /\ W_openFile(f) /\ f.open /\ W_headerOk(f) /\ f.data
                /\ f.channels \in {1, 2})
             => (fileOpen' /\ playing' /\ dataSize' = f.size)
      ]_vars

\* C17: a header whose encoding is not linear PCM, or whose channel count or
\* bit depth is not supported (the WAV player plays 1 or 2 channels,
\* AudioPlaySdWav 2; both 16 bits), is rejected: the step that parses it
\* leaves the file closed and the player not playing (STATE_STOP).
C17_UnsupportedRejected ==
    [][ /\ \A f \in WavFiles :
             (W_open /\ W_openFile(f) /\ f.open /\ f.headerRead
                /\ (f.audioFormat # 1 \/ f.bitsPerSample # 16 \/ f.channels \notin {1, 2}))
             => (~fileOpen' /\ ~playing')
        /\ (A_update /\ state = STATE_PARSE1
              /\ fileRest \in {WavBytes(3, 2, 16, WavDataBytes),
                               WavBytes(1, 2, 8, WavDataBytes),
                               WavBytes(1, 1, 16, WavDataBytes)})
             => (state' = STATE_STOP /\ ~fileOpen')
      ]_vars

\* C18: when the stream ends before a data chunk is found the parser rejects
\* it: core1_openFile on a file that ends inside the header or has no data
\* chunk leaves the file closed and playing false, and an update() that finds
\* AudioPlaySdWav still parsing the header with every byte of the file
\* consumed ends in STATE_STOP with the file closed.
C18_NoDataChunkRejected ==
    [][ /\ \A f \in WavFiles :
             (W_open /\ W_openFile(f) /\ f.open
                /\ (~f.headerRead \/ (W_headerOk(f) /\ ~f.data)))
             => (~fileOpen' /\ ~playing')
        /\ (A_update
              /\ state \in {STATE_PARSE1, STATE_PARSE2, STATE_PARSE3,
                            STATE_PARSE4, STATE_PARSE5}
              /\ Len(fileRest) = 0 /\ buffer_offset >= Len(buffer))
             => (state' = STATE_STOP /\ ~fileOpen')
      ]_vars

\* C19: the producer never holds the player's mutex while it reads the file
\* or decodes: no step of the fill path of the three players makes a file
\* read or a decode between taking and releasing the mutex.
C19_NoIoUnderLock == held \cap {"read", "decode"} = {}

\* C19 witness: the multi-player MP3 player has decoded a frame and pushed
\* its samples under the mutex, and the consumer has delivered some.
C19_Witness ==
    /\ variant = "N" /\ held = {} /\ available > 0 /\ delivered > 0
    /\ pc1 = "svc" /\ playing

\* C20: the file handle of a player is opened, read and closed only by the
\* producer on Core1: no step of the command and consumer context on Core0
\* changes whether the file is open or how much of it has been read.
C20_HandleOwnedByProducer ==
    [][ Core0 => UNCHANGED <<fileOpen, fileRest>> ]_vars

\* C21: the reset that opens a new stream on a player (W playTrack,
\* N playFile, C load_mp3_file), also on a player reused from an earlier
\* track, leaves the ring indices and the occupancy, the staging fill, the
\* position, the end-of-stream flag, the stop flag and the underrun counter
\* zero or false, so that they are reset before the producer's first read.
C21_ResetOnOpen ==
    [][(W_playReset \/ N_playReset \/ C_reset) =>
          /\ readPos' = 0 /\ writePos' = 0 /\ available' = 0
          /\ mp3Fill' = 0 /\ dataPosition' = 0 /\ underruns' = 0
          /\ ~eof' /\ ~stopRequested']_vars

\* The producer's push, the consumer's pop and the reset of a new stream.
Push == W_fillCommit \/ C_decodeFrame \/ N_decodeFrame \/ N_decodePush
Pop == W_serviceAudioQueue \/ C_audio_callback \/ N_sendToAudioQueue
Reset == W_playReset \/ C_reset \/ N_playReset

\* C22, as stated: the occupancy increases only in the producer's push and
\* decreases only in the consumer's pop; no other operation changes it.
C22_OnlyPushAndPop ==
    [][available' # available =>
          \/ Push /\ available' > available
          \/ Pop /\ available' < available]_vars

\* C22, amended: the occupancy increases only in the producer's push and
\* decreases only in the consumer's pop or in the reset that opens a new
\* stream, which sets it to zero; no other operation (stop, refill, failed
\* decode, underrun, end of stream) changes it.
C22_OccupancyChange ==
    [][available' # available =>
          \/ Push /\ available' > available
          \/ Pop /\ available' < available
          \/ Reset /\ available' = 0]_vars

\* C22 witness: a stop has been honoured on a reused player whose ring
\* still holds samples after an underrun was counted.
C22_Witness ==
    /\ available > 0 /\ underruns > 0 /\ stream > 1
    /\ ~playing /\ ~stopRequested /\ stopStream = stream

\* The player streams: it is playing and the producer has its file open
\* (the test under which the producer fills the ring).
Streaming == playing /\ fileOpen

\* C23: a consumer invocation on a player that is not streaming emits a full
\* chunk of silence and changes neither the read index, the occupancy, the
\* underrun counter nor a lifecycle flag; and no consumer invocation
\* changes playing, the stop flag, the write index or the staging buffer.
C23_ConsumerFrame ==
    [][Pop =>
          /\ UNCHANGED <<playing, stopRequested, writePos, mp3Buffer, mp3Fill>>
          /\ (~Streaming /\ irq' = irq) =>
                /\ out'[1] = 0 /\ out'[2] \in {CHUNK, DMA_BUFFER_SIZE}
                /\ UNCHANGED <<readPos, available, underruns, flags>>]_vars

\* C24: silence reaches the sink as sample value 1, never 0: the output
\* stage sends 1 for every sample of a missing input block and for every
\* zero sample, sends every other sample with its value unchanged (in the
\* upper half of the 32-bit word), and no chunk of silence a consumer hands
\* to the output holds a 0.
C24_SilenceIsOne ==
    [][/\ O_update =>
            \A i \in 1..AUDIO_BLOCK_SAMPLES : \A c \in 1..2 :
                LET b == inputQueueArray[c]
                    w == sink'[2 * (i - 1) + c]
                IN  IF b = NULL \/ b[i] = 0 THEN w = 65536 ELSE w = b[i] * 65536
       /\ \A k \in DOMAIN sink' : sink'[k] # 0]_vars

C27_FillBelowWatermark ==
    [][/\ (W_fillBuffer /\ pc1' = "fill") => available < WavWatermark
       /\ (C_core1_check /\ pc1' \in {"read", "decode"}) => available < Mp3Watermark
       /\ (N_service /\ pc1' # "svc") => available < Mp3Watermark]_vars

C29_RefillAppends ==
    [][(N_refillMP3Buffer \/ C_read_mp3_data) =>
          LET n == Len(fileRest) - Len(fileRest')
              chunk == IF variant = "N" THEN SD_READ_CHUNK ELSE MP3_READ_CHUNK
          IN  /\ n > 0 => mp3Fill < MP3_BUFFER_SIZE \div 2
              /\ 0 <= n /\ n <= Min(MP3_BUFFER_SIZE - mp3Fill, chunk)
              /\ mp3Fill' = mp3Fill + n
              /\ \A i \in 1..n : mp3Buffer'[mp3Fill + i] = fileRest[i]
              /\ \A i \in 1..mp3Fill : mp3Buffer'[i] = mp3Buffer[i]]_vars

\* C30: a successful decode that consumes k bytes of a staging buffer
\* holding fill bytes, 1 <= k <= fill, leaves the bytes that were at
\* offsets k .. fill-1 in the same order at offset 0 and a fill of fill - k.
C30_ConsumeFrame ==
    [][(C_decodeFrame \/ N_decodeFrame \/ N_removeDecoded) =>
          LET k == IF N_removeDecoded THEN l_frame_bytes
                   ELSE Decode(mp3Buffer, mp3Fill).frame_bytes
          IN  (1 <= k /\ k <= mp3Fill) =>
                 /\ mp3Fill' = mp3Fill - k
                 /\ \A i \in 1..mp3Fill' : mp3Buffer'[i] = mp3Buffer[k + i]]_vars

\* C30 witness: the C player has decoded the frame of a file that holds a
\* byte of garbage, a frame and one more byte, and the byte behind the
\* frame is now the only byte of the staging buffer.
C30_Witness ==
    /\ variant = "C" /\ pc1 = "stopchk" /\ fileRest = <<>>
    /\ mp3Fill = 1 /\ mp3Buffer[1] = "g" /\ available > 0

\* C31: a push of m samples onto a ring with occupancy a stores
\* min(m, capacity - a) samples from the write index on, advances the write
\* index by that count modulo the capacity and adds the same count to the
\* occupancy (the samples beyond the free space are dropped).
C31_PushCount ==
    [][Push =>
          LET m == IF variant = "W" THEN W_stored(l_bytesToRead)
                   ELSE MonoSamples(Decode(mp3Buffer, mp3Fill))
              c == Min(m, Capacity - available)
          IN  /\ writePos' = (writePos + c) % Capacity
              /\ available' = available + c]_vars

\* C32: a pass of the producer's service loop that starts (pc1 = "svc")
\* with the stop flag of the player set opens no file, starts no storage
\* read, no decode and no push: it changes neither the write index, the
\* occupancy, the staging buffer, the file position nor the data position.
C32_StopCheckedFirst ==
    [][(variant \in {"W", "C", "N"} /\ ~Core0 /\ pc1 = "svc" /\ stopRequested) =>
          /\ pc1' \notin {"fill", "read", "decode"}
          /\ fileOpen' => fileOpen
          /\ UNCHANGED <<writePos, available, mp3Buffer, mp3Fill, fileRest,
                         dataPosition>>]_vars

\* C32 witness: a stream that had delivered samples was stopped, and the
\* producer has honoured the stop and is back at the top of its loop.
C32_Witness ==
    /\ stream > 0 /\ stopStream = stream /\ delivered > 0
    /\ ~stopRequested /\ ~playing /\ ~fileOpen /\ pc1 = "svc"

\* C33: the parser skips a chunk with an unknown tag by its declared length
\* and goes on with the next chunk header: the update() that parses a file
\* whose "fmt " chunk follows a LIST chunk of 4 bytes still finds and parses
\* the format chunk (bytes2millis is set from its byte rate) and does not
\* stop the player.
C33_UnknownChunkSkipped ==
    [][(A_update /\ state = STATE_PARSE1
          /\ fileRest = RIFF \o U32(48 + WavDataBytes) \o WAVE \o LIST \o U32(4)
                          \o <<1, 2, 3, 4>> \o FMT \o U32(16)
                          \o FmtBody(1, 2, 16) \o DataChunk(WavDataBytes))
         => (bytes2millis' = LE(SubSeq(FmtBody(1, 2, 16), 9, 12)) \div 1000
               /\ state' # STATE_STOP)]_vars

\* C34: a storage read that returns fewer bytes than requested, zero
\* included, marks end-of-stream (eof) and is no error: the file stays open
\* and the player keeps playing; a read that returns the requested count
\* leaves eof clear; once eof is set the refill issues no storage read.
C34_ShortReadMarksEnd ==
    [][ LET got == Len(fileRest) - Len(fileRest')
        IN  /\ (C_read_mp3_data /\ fileOpen /\ ~eof /\ mp3Fill < MP3_BUFFER_SIZE
                  /\ ~readFailed')
                 => /\ eof' = (got < Min(MP3_BUFFER_SIZE - mp3Fill, MP3_READ_CHUNK))
                    /\ fileOpen' /\ playing' = playing
            /\ (N_refillMP3Buffer /\ mp3Fill < MP3_BUFFER_SIZE \div 2 /\ N_fileAvailable)
                 => /\ eof' = (got < Min(MP3_BUFFER_SIZE - mp3Fill, SD_READ_CHUNK))
                    /\ fileOpen' /\ playing' = playing
            /\ ((C_read_mp3_data \/ N_refillMP3Buffer) /\ eof)
                 => UNCHANGED <<fileRest, mp3Fill, readFailed>>
      ]_vars

\* C35: the advertised format is written by the first successfully decoded
\* frame after a reset (frames_decoded goes from 0 to 1) and by no other
\* step: a later frame of a different format leaves it unchanged.
C35_FormatOnFirstFrame ==
    [][ IF (C_decodeFrame \/ N_decodeFrame \/ N_decodePush) /\ frames_decoded = 0
          THEN frames_decoded' = 1 /\ player_channels' = Decode(mp3Buffer, mp3Fill).channels
          ELSE player_channels' = player_channels ]_vars

\* A stereo frame and then a mono frame have been decoded in the first
\* stream (1 + 2 mono samples stored, none consumed): the format is the
\* stereo frame's.
C35_Witness ==
    /\ variant \in {"C", "N"} /\ stream = 1
    /\ frames_decoded = 2 /\ available = 3 /\ player_channels = 2

\* C36: no push drops a sample: a step that decodes a frame stores every
\* mono sample it adds to samples_decoded, at consecutive slots from the
\* write index.
C36_NoDrop ==
    [][(C_decodeFrame \/ N_decodeFrame \/ N_decodePush) =>
          /\ samples_decoded' > samples_decoded
          /\ available' - available = samples_decoded' - samples_decoded
          /\ writePos' = (writePos + (samples_decoded' - samples_decoded))
                            % AUDIO_BUFFER_SIZE]_vars

\* The tightest push has happened: a whole mono frame was stored on top of
\* an occupancy one below the watermark.
C36_Witness ==
    /\ variant \in {"C", "N"} /\ samples_decoded > 0
    /\ available = Mp3Watermark - 1 + FRAME_SAMPLES

\* C37: every write to the occupancy, the read index and the write index
\* after initialisation is made holding the player's mutex: the step that
\* writes one of them takes the mutex, so no other context holds it then,
\* and the producer's update of the indices lies between the lock and the
\* unlock.
C37_WritesUnderMutex ==
    [][(ring' # ring) =>
          /\ mutex = "free"
          /\ \A ops \in {W_commit_ops, C_decodeFrame_ops, N_decodeFrame_ops} :
                ~BookUnlocked(ops, FALSE)]_vars

\* The main thread holds the mutex inside the reset of a second stream
\* while the producer stands before the push of a decoded frame.
C37_Witness ==
    /\ variant = "C" /\ mutex = "main" /\ stream = 2
    /\ pc1 = "decode" /\ Decode(mp3Buffer, mp3Fill).samples > 0

\* C38: within one stream the ring buffer is first-in first-out: a full
\* chunk the consumer delivers holds, in order, the samples that follow the
\* ones already delivered in the sequence the producer stored for this
\* stream, with no duplicate, gap or unwritten slot.
C38_Fifo ==
    [][(Pop /\ delivered' > delivered) =>
          \A i \in 0..(delivered' - delivered - 1) :
              audio_buffer[(readPos + i) % Capacity] = delivered + i + 1]_vars

\* C39: in every reachable state the fill level of the staging buffer lies
\* between 0 and the capacity of the staging buffer: no refill writes past
\* its end and no removal of consumed bytes wraps the unsigned fill level.
C39_FillInRange == 0 <= mp3Fill /\ mp3Fill <= MP3_BUFFER_SIZE

===========================================================================
